---------------------------- MODULE Spec2Model ----------------------------
(*
  CronoPlan API - authentication / session subsystem.

  State machine of app/routers/auth.py and app/dependencies/auth.py:
  the token codec (PyJWT encode/decode as the code uses it), the token
  issuer, the identity reconciler (get_or_create_user_profile and
  create_user_profile), the auth gate and the session flows.  The clock
  runs in milliseconds; PyJWT writes exp/iat as whole seconds, so the code
  sees the second `now` of the clock; retry delays are in milliseconds.
  The identity provider and the users table are external
  collaborators: their answers are nondeterministic choices among the
  cases the code distinguishes.
*)
EXTENDS Integers, Sequences, FiniteSets, TLC

\* ------------------------------------------------------------------
\* Bounds of the model
\* ------------------------------------------------------------------
MaxRequests == 3
MaxFlows == 2
MaxFaults == 3
MaxClockGap == 1

\* ------------------------------------------------------------------
\* Process-wide settings (app/config.py)
\* ------------------------------------------------------------------
SECRET_KEY == "SECRET_KEY"
ACCESS_TOKEN_EXPIRE_MINUTES == 60 * 24 * 7
AccessTtl == ACCESS_TOKEN_EXPIRE_MINUTES * 60

\* ------------------------------------------------------------------
\* Values
\* ------------------------------------------------------------------
NoneVal == "None"
Falsy(x) == x \in {NoneVal, ""}

Procs == {"p1", "p2"}
Users == {"u1", "u2", "u3"}
IdOf(email) ==
    IF email = "a@x.com" THEN "u1" ELSE IF email = "b@x.com" THEN "u2" ELSE "u3"
OtherKind(k) == IF k = "access" THEN "refresh" ELSE "access"

\* HTTP details raised by the code (accents folded to ASCII)
DetailExpired == "Tu sesion ha expirado. Por favor, inicia sesion nuevamente."
DetailMalformed == "Token de autenticacion invalido. Por favor, inicia sesion."
DetailKindAccess == "Token invalido: se esperaba un access token"
DetailKindRefresh == "Token invalido: se esperaba un refresh token"
DetailNoSubject == "Token invalido: informacion de usuario incompleta"
DetailNoUser == "No se pudo identificar al usuario. Por favor, inicia sesion."
DetailNoCreds == "No se pudo validar las credenciales. Por favor, inicia sesion."
DetailRefreshNotRefresh == "Token invalido: no es un refresh token"
DetailRefreshExpired == "Refresh token expirado. Por favor, inicia sesion nuevamente."
DetailRefreshInvalid == "Refresh token invalido"
DetailRefreshNoUser == "Usuario no encontrado"
DetailRefreshError == "Error al renovar token"
DetailOk == "ok"

\* ------------------------------------------------------------------
\* Token codec: jwt.encode / jwt.decode as called by the code
\* ------------------------------------------------------------------
\* jwt.encode(to_encode, key, algorithm): a compact JWS carrying the claims,
\* signed with key.
jwt_encode(to_encode, key) ==
    [form |-> "jws", key |-> key,
     sub |-> to_encode.sub, email |-> to_encode.email,
     exp |-> to_encode.exp, iat |-> to_encode.iat, type |-> to_encode.type]

\* A string that is no JWS at all.
GarbageToken ==
    [form |-> "garbage", key |-> NoneVal, sub |-> NoneVal, email |-> NoneVal,
     exp |-> 0, iat |-> 0, type |-> NoneVal]

NoToken ==
    [form |-> "absent", key |-> NoneVal, sub |-> NoneVal, email |-> NoneVal,
     exp |-> 0, iat |-> 0, type |-> NoneVal]

PayloadOf(token) ==
    [sub |-> token.sub, email |-> token.email, exp |-> token.exp,
     iat |-> token.iat, type |-> token.type]

NoPayload ==
    [sub |-> NoneVal, email |-> NoneVal, exp |-> 0, iat |-> 0, type |-> NoneVal]

\* jwt.decode(token, key, algorithms=[ALGORITHM]) at time t: structure and
\* signature first, then the claims in PyJWT's order: iat (a token issued in
\* the future, iat > now, is not yet valid), then exp (expired when
\* exp <= now).  ImmatureSignatureError is an InvalidTokenError and no
\* ExpiredSignatureError.
jwt_decode_early(token, key, t) ==
    IF token.form # "jws" THEN [exc |-> "DecodeError", payload |-> NoPayload]
    ELSE IF token.key # key
        THEN [exc |-> "InvalidSignatureError", payload |-> NoPayload]
    ELSE IF token.iat > t
        THEN [exc |-> "ImmatureSignatureError", payload |-> NoPayload]
    ELSE IF token.exp <= t + 1
        THEN [exc |-> "ExpiredSignatureError", payload |-> NoPayload]
    ELSE [exc |-> "none", payload |-> PayloadOf(token)]

jwt_decode(token, key, t) ==
    IF token.form # "jws" THEN [exc |-> "DecodeError", payload |-> NoPayload]
    ELSE IF token.key # key
        THEN [exc |-> "InvalidSignatureError", payload |-> NoPayload]
    ELSE IF token.iat > t
        THEN [exc |-> "ImmatureSignatureError", payload |-> NoPayload]
    ELSE IF token.exp <= t
        THEN [exc |-> "ExpiredSignatureError", payload |-> NoPayload]
    ELSE [exc |-> "none", payload |-> PayloadOf(token)]

\* ------------------------------------------------------------------
\* Token issuer
\* ------------------------------------------------------------------
\* create_access_token: t1 is the clock read for exp, t2 the later read for iat.
create_access_token(user_id, email, t1, t2) ==
    [token |-> jwt_encode([sub |-> user_id, email |-> email,
                           exp |-> t1 + ACCESS_TOKEN_EXPIRE_MINUTES * 60,
                           iat |-> t2, type |-> "access"], SECRET_KEY),
     expires_in |-> ACCESS_TOKEN_EXPIRE_MINUTES * 60]

\* An exception, by the text of str(e) and by the substrings, among those the
\* handlers look for, that the lower-cased text contains.
Exc(text, has) == [text |-> text, has |-> has]
NoExc == Exc("", {})
Has(msg, word) == word \in msg.has

\* The AttributeError of reading settings.REFRESH_TOKEN_EXPIRE_DAYS.
MsgSettings ==
    Exc("'Settings' object has no attribute 'REFRESH_TOKEN_EXPIRE_DAYS'", {"token"})

\* The ValueError of a print whose stream does not take the text (sys.stdout
\* closed).
MsgPrint == Exc("I/O operation on closed file.", {})

\* An exception of the store's client; the one PostgREST answers single()
\* with when no row matched (code PGRST116: neither "no rows" nor "not found"
\* occurs in its lower-cased text); and an error whose text does say that the
\* row was not found.
MsgStore == Exc("Server disconnected", {})
MsgNoRows == Exc("JSON object requested, multiple (or no) rows returned", {})
MsgNotFound == Exc("Row not found", {"not found"})

\* create_refresh_token: its first statement reads
\* settings.REFRESH_TOKEN_EXPIRE_DAYS, which class Settings does not declare;
\* the AttributeError leaves the function before anything is encoded.
create_refresh_token(user_id, email, t1, t2) ==
    [exc |-> MsgSettings, token |-> NoToken, expires_in |-> 0]

\* ------------------------------------------------------------------
\* Auth gate (app/dependencies/auth.py)
\* ------------------------------------------------------------------
Http(status, detail, payload) ==
    [status |-> status, detail |-> detail, payload |-> payload]

DetailKind(token_type) ==
    IF token_type = "access" THEN DetailKindAccess ELSE DetailKindRefresh

\* AuthDependency.verify_token(token, token_type) at time t
verify_token_nokind(token, token_type, t) ==
    LET d == jwt_decode(token, SECRET_KEY, t) IN
    IF d.exc = "ExpiredSignatureError" THEN Http(401, DetailExpired, NoPayload)
    ELSE IF d.exc # "none" THEN Http(401, DetailMalformed, NoPayload)
    ELSE IF Falsy(d.payload.sub) THEN Http(401, DetailNoSubject, NoPayload)
    ELSE Http(200, DetailOk, d.payload)

verify_token_subfirst(token, token_type, t) ==
    LET d == jwt_decode(token, SECRET_KEY, t) IN
    IF d.exc = "ExpiredSignatureError" THEN Http(401, DetailExpired, NoPayload)
    ELSE IF d.exc # "none" THEN Http(401, DetailMalformed, NoPayload)
    ELSE IF Falsy(d.payload.sub) THEN Http(401, DetailNoSubject, NoPayload)
    ELSE IF d.payload.type # token_type
        THEN Http(401, DetailKind(token_type), NoPayload)
    ELSE Http(200, DetailOk, d.payload)

verify_token(token, token_type, t) ==
    LET d == jwt_decode(token, SECRET_KEY, t) IN
    IF d.exc = "ExpiredSignatureError" THEN Http(401, DetailExpired, NoPayload)
    ELSE IF d.exc # "none" THEN Http(401, DetailMalformed, NoPayload)
    ELSE IF d.payload.type # token_type
        THEN Http(401, DetailKind(token_type), NoPayload)
    ELSE IF Falsy(d.payload.sub) THEN Http(401, DetailNoSubject, NoPayload)
    ELSE Http(200, DetailOk, d.payload)

\* AuthDependency.get_current_user_id(credentials) at time t; printed is
\* whether the print of the decoded token went through: it raises when the
\* output stream cannot encode the line or is closed, and the
\* `except Exception` clause then answers 401.
get_current_user_id_unverified(token, t, printed) ==
    IF token.form = "jws" /\ ~Falsy(token.sub)
        THEN [status |-> 200, detail |-> DetailOk, user_id |-> token.sub]
    ELSE [status |-> 401, detail |-> DetailNoUser, user_id |-> NoneVal]

get_current_user_id(token, t, printed) ==
    LET v == verify_token(token, "access", t) IN
    IF v.status # 200 THEN [status |-> v.status, detail |-> v.detail, user_id |-> NoneVal]
    ELSE IF Falsy(v.payload.sub)
        THEN [status |-> 401, detail |-> DetailNoUser, user_id |-> NoneVal]
    ELSE IF ~printed
        THEN [status |-> 401, detail |-> DetailNoCreds, user_id |-> NoneVal]
    ELSE [status |-> 200, detail |-> DetailOk, user_id |-> v.payload.sub]


\* ------------------------------------------------------------------
\* Profile rows and the users table
\* ------------------------------------------------------------------
NoProfile ==
    [id |-> NoneVal, email |-> NoneVal, full_name |-> NoneVal, phone |-> NoneVal,
     avatar_url |-> NoneVal, created_at |-> 0]

\* A row as the users table stores it: the columns of user_data plus
\* created_at; it has no key "email", which reads as None.
Row(user_id, full_name, phone, avatar_url, t) ==
    [id |-> user_id, email |-> NoneVal, full_name |-> full_name, phone |-> phone,
     avatar_url |-> avatar_url, created_at |-> t]

\* The dict the reconciler builds when it gives up: hints plus the current time.
Synthesized_noemail(user_id, email, full_name, phone, avatar_url, t) ==
    [id |-> user_id, email |-> NoneVal, full_name |-> full_name, phone |-> phone,
     avatar_url |-> avatar_url, created_at |-> t]

Synthesized(user_id, email, full_name, phone, avatar_url, t) ==
    [id |-> user_id, email |-> email, full_name |-> full_name, phone |-> phone,
     avatar_url |-> avatar_url, created_at |-> t]

RowsOf(table, user_id) == {i \in DOMAIN table : table[i].id = user_id}
HasRow(table, user_id) == RowsOf(table, user_id) # {}
TheRow(table, user_id) ==
    table[CHOOSE i \in RowsOf(table, user_id) : \A j \in RowsOf(table, user_id) : i <= j]

\* users.insert(row): the table's primary key on id rejects a second row.
InsertAccepted(table, row) == ~HasRow(table, row.id)

\* users.update(update_data).eq("id", user_id) of update_profile: the columns
\* named in update_data are rewritten in every matching row.
UpdateWith_droprows(table, user_id, update_data) ==
    SelectSeq([i \in DOMAIN table |->
        IF table[i].id = user_id
        THEN [table[i] EXCEPT
                !.full_name = IF "full_name" \in DOMAIN update_data
                              THEN update_data.full_name ELSE @,
                !.phone = IF "phone" \in DOMAIN update_data
                          THEN update_data.phone ELSE @,
                !.avatar_url = IF "avatar_url" \in DOMAIN update_data
                               THEN update_data.avatar_url ELSE @]
        ELSE table[i]],
              LAMBDA row : row.id = user_id)

UpdateWith_allrows(table, user_id, update_data) ==
    [i \in DOMAIN table |->
        [table[i] EXCEPT
            !.full_name = IF "full_name" \in DOMAIN update_data
                          THEN update_data.full_name ELSE @,
            !.phone = IF "phone" \in DOMAIN update_data
                      THEN update_data.phone ELSE @,
            !.avatar_url = IF "avatar_url" \in DOMAIN update_data
                           THEN update_data.avatar_url ELSE @]]

UpdateWith(table, user_id, update_data) ==
    [i \in DOMAIN table |->
        IF table[i].id = user_id
        THEN [table[i] EXCEPT
                !.full_name = IF "full_name" \in DOMAIN update_data
                              THEN update_data.full_name ELSE @,
                !.phone = IF "phone" \in DOMAIN update_data
                          THEN update_data.phone ELSE @,
                !.avatar_url = IF "avatar_url" \in DOMAIN update_data
                               THEN update_data.avatar_url ELSE @]
        ELSE table[i]]

\* users.update(fields).eq("id", user_id): every matching row is rewritten.
UpdateRows(table, user_id, avatar_url, full_name) ==
    [i \in DOMAIN table |->
        IF table[i].id = user_id
        THEN [table[i] EXCEPT !.avatar_url = avatar_url, !.full_name = full_name]
        ELSE table[i]]

\* ------------------------------------------------------------------
\* Response schemas (app/schemas/auth.py)
\* ------------------------------------------------------------------
UserResponse(id, email, full_name, phone, avatar_url, created_at) ==
    [id |-> id, email |-> email, full_name |-> full_name, phone |-> phone,
     avatar_url |-> avatar_url, created_at |-> created_at]

\* AuthResponse declares access_token, token_type, expires_in and user; a
\* keyword it does not declare (refresh_token) is ignored by pydantic.
AuthResponse(access_token, refresh_token, token_type, expires_in, user) ==
    [access_token |-> access_token, token_type |-> token_type,
     expires_in |-> expires_in, user |-> user]

\* The body of an HTTPException.
ErrorBody(detail) == [detail |-> detail]

\* MessageResponse declares message alone.
MessageResponse(message) == [message |-> message]

\* ------------------------------------------------------------------
\* Application (app/main.py, app/config.py)
\* ------------------------------------------------------------------
\* The address under which the client reaches the service, the prefix of
\* every router and the route of each operation.
BaseUrl == "http://testserver"
API_V1_PREFIX == "/api/v1"
RouteOf(op) ==
    IF op = "register" THEN "/auth/register"
    ELSE IF op = "login" THEN "/auth/login"
    ELSE IF op = "refresh" THEN "/auth/refresh"
    ELSE IF op = "google" THEN "/auth/google"
    ELSE IF op = "logout" THEN "/auth/logout"
    ELSE IF op = "verify" THEN "/auth/verify"
    ELSE IF op \in {"delete_avatar", "upload_avatar"} THEN "/profile/avatar"
    ELSE IF op = "update_name" THEN "/profile/name"
    ELSE "/auth/me"
RequestUrl(op) == BaseUrl \o API_V1_PREFIX \o RouteOf(op)

\* The handler registered for status 404: it answers every HTTPException of
\* that status, whatever its detail, with a body of its own.
not_found_handler(url, exc) ==
    [error |-> "Not Found", message |-> "El recurso solicitado no existe",
     path |-> url]

\* The handler registered for status 500: it answers the exceptions that no
\* except clause caught; an HTTPException of status 500 keeps its detail.
internal_error_handler(url, exc) ==
    [error |-> "Internal Server Error",
     message |-> "Ha ocurrido un error interno en el servidor"]

\* ------------------------------------------------------------------
\* Names and hints used by the requests
\* ------------------------------------------------------------------
RegisterHints == {[full_name |-> NoneVal, phone |-> NoneVal],
                  [full_name |-> "Ana", phone |-> "555"]}
GoogleMeta == {[full_name |-> "Ana G", avatar_url |-> "pic1"],
               [full_name |-> NoneVal, avatar_url |-> NoneVal]}
NoMeta == [full_name |-> NoneVal, phone |-> NoneVal]

\* Tokens a client may present besides the ones this service minted: signed
\* with the service's key, issued at second iat and expiring at second exp.
SignedAt(sub, email, type, iat, exp) ==
    jwt_encode([sub |-> sub, email |-> email, exp |-> exp, iat |-> iat,
                type |-> type], SECRET_KEY)
Signed(sub, email, type) == SignedAt(sub, email, type, 0, AccessTtl)

\* Tokens whose iat lies ahead of the clock's start: two that become valid at
\* second AccessTtl, and one whose iat is later than its exp.
PostdatedAccess == SignedAt("u1", "a@x.com", "access", AccessTtl, 2 * AccessTtl)
PostdatedRefresh == SignedAt("u1", "a@x.com", "refresh", AccessTtl, 2 * AccessTtl)
Misdated == SignedAt("u1", "a@x.com", "access", AccessTtl + 1, AccessTtl)

CraftedTokens ==
    {GarbageToken,
     Signed("u1", "a@x.com", "access"),
     Signed("u1", "a@x.com", "refresh"),
     jwt_encode([sub |-> "u1", email |-> "a@x.com", exp |-> AccessTtl, iat |-> 0,
                 type |-> "access"], "OTHER_KEY"),
     Signed(NoneVal, "a@x.com", "access"),
     Signed("", "a@x.com", "access"),
     Signed(NoneVal, "a@x.com", "refresh"),
     Signed("u1", NoneVal, "refresh"),
     Signed("u1", "a@x.com", NoneVal),
     PostdatedAccess, PostdatedRefresh, Misdated}

\* Settings of app/routers/profile.py.
BUCKET_NAME == "avatars"
ALLOWED_EXTENSIONS == {".jpg", ".jpeg", ".png", ".webp"}
MAX_FILE_SIZE == 5 * 1024 * 1024

\* supabase.storage.from_(BUCKET_NAME).get_public_url(path)
get_public_url(path) ==
    "https://x.supabase.co/storage/v1/object/public/" \o BUCKET_NAME \o "/" \o path

\* file_path = f"{user_id}/{uuid.uuid4()}{file_ext}": one uuid stands for the
\* fresh one of each upload.
file_path(user_id, file_ext) ==
    user_id \o "/" \o "6f1c2d3e-4a5b-4c6d-8e7f-8a9b0c1d2e3f" \o file_ext

\* The public URL of a file of the bucket "avatars", and the path of the file
\* in it: old_avatar_url.split("/avatars/")[1], None for a URL without
\* "/avatars/".
StoredAvatar == "https://x.supabase.co/storage/v1/object/public/avatars/u1/avatar.png"
BucketPaths ==
    {"u1/avatar.png"} \cup {file_path(u, x) : u \in Users, x \in ALLOWED_EXTENSIONS}
AvatarPath(url) ==
    IF \E path \in BucketPaths : url = get_public_url(path)
    THEN CHOOSE path \in BucketPaths : url = get_public_url(path)
    ELSE NoneVal

\* Bodies of PUT /auth/me: a field that is None was not supplied.
UpdateBodies ==
    {[full_name |-> NoneVal, phone |-> NoneVal, avatar_url |-> NoneVal],
     [full_name |-> NoneVal, phone |-> "777", avatar_url |-> NoneVal],
     [full_name |-> "", phone |-> NoneVal, avatar_url |-> StoredAvatar]}

\* A correctly signed access token whose subject has no row in the users table.
OrphanToken == Signed("u3", "c@x.com", "access")

\* Seconds the clock may jump to: around the expiry of the tokens presented.
TimePoints == {AccessTtl - 1, AccessTtl}

\* Milliseconds into its second at which the clock may start.
Phases == {0, 650, 840}

\* ------------------------------------------------------------------
\* State
\* ------------------------------------------------------------------
VARIABLES
    clock,       \* the clock, milliseconds
    users,       \* the users table: a sequence of rows
    identities,  \* identity ids known to the identity provider
    meta,        \* provider metadata per identity (full_name, phone)
    req,         \* per handler: position and locals of the request in flight
    started,     \* requests started
    faults       \* store faults injected

vars == <<clock, users, identities, meta, req, started, faults>>

\* datetime.utcnow() as PyJWT encodes it: the whole second of the clock.
now == clock \div 1000

Idle ==
    [pc |-> "idle", op |-> "none", uid |-> NoneVal, email |-> NoneVal,
     full_name |-> NoneVal, phone |-> NoneVal, avatar_url |-> NoneVal,
     attempt |-> 0, retry_delay |-> 0, iattempt |-> 0, iretry_delay |-> 0,
     waits |-> <<>>, reads |-> 0, inserts |-> 0,
     tok |-> NoToken, at |-> 0, status |-> 0, detail |-> NoneVal,
     user_id |-> NoneVal, profile |-> NoProfile, how |-> "none",
     access |-> NoToken, refresh |-> NoToken, expires_in |-> 0,
     agap |-> 0, mint |-> 0, since |-> 0, printed |-> TRUE,
     provider |-> "none", msg |-> NoExc, store |-> "none",
     body |-> ErrorBody(NoneVal), resp |-> ErrorBody(NoneVal)]

Init ==
    /\ clock = 0
    /\ users = <<>>
    /\ identities = {}
    /\ meta = [u \in Users |-> NoMeta]
    /\ req = [p \in Procs |-> Idle]
    /\ started = 0
    /\ faults = MaxFaults - 2

\* The tokens a client may present.  A token the service mints never leaves
\* the handler (create_refresh_token raises before the response is built), so
\* the tokens presented are signed elsewhere with the same key, or forged.
Presentable == CraftedTokens

CanStart(p) == req[p].pc \in {"idle", "done"} /\ started < MaxRequests

\* A request ends with an HTTPException: its detail is the body, except for
\* status 404, whose body the application's handler writes.
Fail(r, status, detail) ==
    IF status = 404
    THEN [r EXCEPT !.pc = "done", !.status = status, !.detail = NoneVal,
                   !.since = 0,
                   !.resp = not_found_handler(RequestUrl(r.op), detail)]
    ELSE [r EXCEPT !.pc = "done", !.status = status, !.detail = detail,
                   !.since = 0, !.resp = ErrorBody(detail)]

\* A request ends with an exception that no except clause caught.
Unhandled(r, exc) ==
    [r EXCEPT !.pc = "done", !.status = 500, !.detail = NoneVal,
              !.since = 0, !.resp = internal_error_handler(RequestUrl(r.op), exc)]

\* The handler starts an await asyncio.sleep at instant t.
Asleep(r, t) == IF r.pc \in {"settle", "rsleep", "isleep"} THEN [r EXCEPT !.since = t] ELSE r

\* The instant at which a sleep of ms milliseconds that began at r.since is
\* over: not before its delay has passed, later when the clock already is.
Wake(r, ms) == IF clock < r.since + ms THEN r.since + ms ELSE clock


\* ------------------------------------------------------------------
\* Identity reconciler (app/routers/auth.py)
\* ------------------------------------------------------------------
create_max_retries == 5
create_retry_delay == 300
get_max_retries == 3
get_retry_delay == 200

\* "if not user_profile": a dict is falsy only when it is None or empty.
ProfileFalsy(profile) == profile = NoProfile

\* google_auth: the guard of the opportunistic update.
NeedsUpdate(profile, avatar_url) ==
    /\ ~Falsy(profile.id)
    /\ ~Falsy(avatar_url)
    /\ profile.avatar_url # avatar_url

\* The reconciler returned `profile` to the flow that called it; the flow goes
\* on to its next step.
Returned(r, profile, how) ==
    LET r1 == [r EXCEPT !.profile = profile, !.how = how] IN
    IF r.op = "refresh" /\ ProfileFalsy(profile)
        THEN Fail(r1, 401, DetailRefreshNoUser)
    ELSE IF r.op = "google" /\ NeedsUpdate(profile, r.avatar_url)
        THEN [r1 EXCEPT !.pc = "update"]
    ELSE [r1 EXCEPT !.pc = "issue"]

\* Entry of create_user_profile.
EnterCreate(r) ==
    [r EXCEPT !.pc = "insert", !.iattempt = 0, !.iretry_delay = create_retry_delay]

\* One iteration of create_user_profile's loop, given the answer of the insert:
\* "data" (the created row comes back), "empty" (no representation comes
\* back) or "error" (the insert raised).
create_user_profile_forever(r, outcome, t) ==
    IF outcome = "data"
        THEN Returned(r, Row(r.uid, r.full_name, r.phone, r.avatar_url, t), "created")
    ELSE IF outcome = "empty"
        THEN Returned(r, Synthesized(r.uid, r.email, r.full_name, r.phone,
                                     r.avatar_url, t), "basic")
    ELSE [r EXCEPT !.pc = "isleep"]

create_user_profile(r, outcome, t) ==
    IF outcome = "data"
        THEN Returned(r, Row(r.uid, r.full_name, r.phone, r.avatar_url, t), "created")
    ELSE IF outcome = "empty"
        THEN Returned(r, Synthesized(r.uid, r.email, r.full_name, r.phone,
                                     r.avatar_url, t), "basic")
    ELSE IF r.iattempt = create_max_retries - 1
        THEN Returned(r, Synthesized(r.uid, r.email, r.full_name, r.phone,
                                     r.avatar_url, t), "synth")
    ELSE [r EXCEPT !.pc = "isleep"]

\* The exception behind an answer of the profile read that is an exception:
\* "no_rows" (the error single() raises when no row matched), "not_found" (an
\* error whose text says no rows / not found) or "error" (any other error).
ReadExc(outcome) ==
    IF outcome = "no_rows" THEN MsgNoRows
    ELSE IF outcome = "not_found" THEN MsgNotFound
    ELSE MsgStore

\* "no rows" in error_msg or "not found" in error_msg
SaysNoRow(msg) == Has(msg, "no rows") \/ Has(msg, "not found")

\* One iteration of get_or_create_user_profile's loop, given the answer of the
\* read: "data" (the row), "empty" (a result without data) or an exception,
\* which leads to the insert only when its text says that no row was found.
get_or_create_user_profile_hints(r, outcome, table, t) ==
    IF outcome = "data"
        THEN Returned(r, Synthesized(r.uid, r.email, r.full_name, r.phone,
                                     r.avatar_url, t), "stored")
    ELSE IF outcome = "empty" \/ SaysNoRow(ReadExc(outcome))
        THEN EnterCreate(r)
    ELSE IF r.attempt < get_max_retries - 1
        THEN [r EXCEPT !.pc = "rsleep"]
    ELSE Returned(r, Synthesized(r.uid, r.email, r.full_name, r.phone,
                                 r.avatar_url, t), "synth")

get_or_create_user_profile_retryread(r, outcome, table, t) ==
    IF outcome = "data"
        THEN Returned(r, TheRow(table, r.uid), "stored")
    ELSE IF r.attempt < get_max_retries - 1
        THEN [r EXCEPT !.pc = "rsleep"]
    ELSE IF outcome = "empty" \/ SaysNoRow(ReadExc(outcome))
        THEN EnterCreate(r)
    ELSE Returned(r, Synthesized(r.uid, r.email, r.full_name, r.phone,
                                 r.avatar_url, t), "synth")

get_or_create_user_profile(r, outcome, table, t) ==
    IF outcome = "data"
        THEN Returned(r, TheRow(table, r.uid), "stored")
    ELSE IF outcome = "empty" \/ SaysNoRow(ReadExc(outcome))
        THEN EnterCreate(r)
    ELSE IF r.attempt < get_max_retries - 1
        THEN [r EXCEPT !.pc = "rsleep"]
    ELSE Returned(r, Synthesized(r.uid, r.email, r.full_name, r.phone,
                                 r.avatar_url, t), "synth")

\* Entry of get_or_create_user_profile for identity uid with the given hints.
EnterGet(r, op, uid, email, full_name, phone, avatar_url) ==
    [r EXCEPT !.pc = "read", !.op = op, !.uid = uid, !.email = email,
              !.full_name = full_name, !.phone = phone, !.avatar_url = avatar_url,
              !.attempt = 0, !.retry_delay = get_retry_delay]

\* supabase.table("users").select("*").eq("id", user_id).single().execute():
\* the row when there is one; when there is none, the error of single()
\* ("no_rows"), or, from a store that words it otherwise, a result without
\* data ("empty") or an error that says so ("not_found"); a failure of the
\* store at any time.
ReadProfile(p) ==
    /\ req[p].pc = "read"
    /\ \E outcome \in {"data", "empty", "no_rows", "not_found", "error"} :
        /\ outcome = "data" => HasRow(users, req[p].uid)
        /\ outcome \in {"empty", "no_rows", "not_found"} => ~HasRow(users, req[p].uid)
        /\ outcome = "error" => faults < MaxFaults
        /\ faults' = IF outcome = "error" THEN faults + 1 ELSE faults
        /\ req' = [req EXCEPT ![p] =
                Asleep(get_or_create_user_profile(
                            [req[p] EXCEPT !.reads = @ + 1, !.store = outcome],
                            outcome, users, now), clock)]
    /\ UNCHANGED <<clock, users, identities, meta, started>>

\* await asyncio.sleep(retry_delay); retry_delay *= 2   (read loop)
ReadSleep_nodouble(p) ==
    /\ req[p].pc = "rsleep"
    /\ clock' = Wake(req[p], req[p].retry_delay)
    /\ req' = [req EXCEPT ![p] =
            [req[p] EXCEPT !.pc = "read", !.since = 0,
                           !.waits = Append(@, req[p].retry_delay),
                           !.attempt = @ + 1]]
    /\ UNCHANGED <<users, identities, meta, started, faults>>

ReadSleep(p) ==
    /\ req[p].pc = "rsleep"
    /\ clock' = Wake(req[p], req[p].retry_delay)
    /\ req' = [req EXCEPT ![p] =
            [req[p] EXCEPT !.pc = "read", !.since = 0,
                           !.waits = Append(@, req[p].retry_delay),
                           !.retry_delay = @ * 2,
                           !.attempt = @ + 1]]
    /\ UNCHANGED <<users, identities, meta, started, faults>>

\* supabase.table("users").insert(user_data).execute(): the created row, a
\* result without data, or an exception, which is all the handler learns
\* when the store turns the insert down ("conflict") or fails ("error").
InsertProfile(p) ==
    /\ req[p].pc = "insert"
    /\ LET r == [req[p] EXCEPT !.inserts = @ + 1]
           row == Row(r.uid, r.full_name, r.phone, r.avatar_url, now) IN
       \E outcome \in {"data", "empty", "conflict", "error"} :
        /\ outcome \in {"data", "empty"} => InsertAccepted(users, row)
        /\ outcome = "conflict" => ~InsertAccepted(users, row)
        /\ outcome \in {"empty", "error"} => faults < MaxFaults
        /\ faults' = IF outcome \in {"empty", "error"} THEN faults + 1 ELSE faults
        /\ users' = IF outcome \in {"data", "empty"} THEN Append(users, row) ELSE users
        /\ req' = [req EXCEPT ![p] =
                LET answer == IF outcome = "conflict" THEN "error" ELSE outcome IN
                Asleep(create_user_profile([r EXCEPT !.store = answer],
                                           answer, now), clock)]
    /\ UNCHANGED <<clock, identities, meta, started>>

\* await asyncio.sleep(retry_delay); retry_delay *= 2   (insert loop)
InsertSleep(p) ==
    /\ req[p].pc = "isleep"
    /\ clock' = Wake(req[p], req[p].iretry_delay)
    /\ req' = [req EXCEPT ![p] =
            [req[p] EXCEPT !.pc = "insert", !.since = 0,
                           !.waits = Append(@, req[p].iretry_delay),
                           !.iretry_delay = @ * 2,
                           !.iattempt = @ + 1]]
    /\ UNCHANGED <<users, identities, meta, started, faults>>


\* ------------------------------------------------------------------
\* Session flows (app/routers/auth.py)
\* ------------------------------------------------------------------
\* The messages of the identity provider's exceptions that the handlers tell
\* apart.
MsgAlreadyRegistered == Exc("User already registered", {"already registered"})
MsgInvalidEmail ==
    Exc("Unable to validate email address: invalid format", {"invalid", "email"})
MsgConfirmation == Exc("Error sending confirmation email", {"email", "confirmation"})
MsgInvalidCredentials == Exc("Invalid login credentials", {"invalid", "credentials"})
MsgEmailNotConfirmed == Exc("Email not confirmed", {"email"})
MsgBadIdToken == Exc("Bad ID token", {"token"})
MsgOther == Exc("Database error saving new user", {})

DetailRegisterNoUser == "No se pudo crear el usuario. Verifica que el email sea valido y no este ya registrado."
DetailAlreadyRegistered == "El email ya esta registrado"
DetailInvalidEmail == "El formato del email es invalido o Supabase no permite este email. Verifica la configuracion de autenticacion en Supabase (Settings > Authentication > Email Auth Settings)"
DetailConfirmation == "El usuario fue creado pero requiere confirmacion por email. Revisa tu bandeja de entrada."
DetailRegisterError(msg) == "Error al registrar usuario: " \o msg.text
DetailInvalidCredentials == "Credenciales invalidas"
DetailLoginError(msg) == "Error al iniciar sesion: " \o msg.text
DetailGoogleNoUser == "No se pudo autenticar con Google. Token invalido."
DetailGoogleInvalid == "Token de Google invalido o expirado"
DetailGoogleError(msg) == "Error al autenticar con Google: " \o msg.text
DetailLogout == "Sesion cerrada exitosamente"
DetailVerified(user_id) == "Token valido para el usuario " \o user_id

\* register: the except clause that maps an exception to a response.
register_error_format500(r, msg) ==
    IF Has(msg, "already registered") \/ Has(msg, "already been registered")
        THEN Fail(r, 400, DetailAlreadyRegistered)
    ELSE IF Has(msg, "email") /\ Has(msg, "confirmation")
        THEN Fail(r, 400, DetailConfirmation)
    ELSE Fail(r, 500, DetailRegisterError(msg))

register_error(r, msg) ==
    IF Has(msg, "already registered") \/ Has(msg, "already been registered")
        THEN Fail(r, 400, DetailAlreadyRegistered)
    ELSE IF Has(msg, "invalid") /\ Has(msg, "email")
        THEN Fail(r, 400, DetailInvalidEmail)
    ELSE IF Has(msg, "email") /\ Has(msg, "confirmation")
        THEN Fail(r, 400, DetailConfirmation)
    ELSE Fail(r, 500, DetailRegisterError(msg))

\* login: the except clause that maps an exception to a response.  The
\* answer of status 500 is raised after a print; printed is whether that
\* print went through, its own exception leaves the handler uncaught.
login_error(r, msg, printed) ==
    IF Has(msg, "invalid") \/ Has(msg, "credentials") \/ Has(msg, "password")
        THEN Fail(r, 401, DetailInvalidCredentials)
    ELSE IF ~printed THEN Unhandled(r, MsgPrint)
    ELSE Fail(r, 500, DetailLoginError(msg))

\* refresh_token: the last except clause, for an exception that is neither a
\* JWT error nor an HTTPException: a print, then the answer.
refresh_error(r, msg, printed) ==
    IF ~printed THEN Unhandled(r, MsgPrint)
    ELSE Fail(r, 401, DetailRefreshError)

\* Whether the except clause of flow op reaches a print on its way to the
\* answer for msg.
ErrorPrints(op, msg) ==
    \/ op = "refresh"
    \/ /\ op = "login"
       /\ ~(Has(msg, "invalid") \/ Has(msg, "credentials") \/ Has(msg, "password"))

\* google_auth: the except clause that maps an exception to a response.
google_error(r, msg) ==
    IF Has(msg, "invalid") \/ Has(msg, "token")
        THEN Fail(r, 400, DetailGoogleInvalid)
    ELSE Fail(r, 500, DetailGoogleError(msg))

\* POST /auth/register up to its first await: supabase.auth.sign_up, then
\* asyncio.sleep(0.1) is awaited.
Register(p, email, h) ==
    /\ CanStart(p)
    /\ \E outcome \in {"user", "no_user", "exception"} :
        LET r == [Idle EXCEPT !.op = "register", !.email = email, !.at = now,
                           !.provider = outcome]
            uid == IdOf(email) IN
        \/ /\ outcome = "user"
           /\ uid \notin identities
           /\ identities' = identities \cup {uid}
           /\ meta' = [meta EXCEPT ![uid] = h]
           /\ req' = [req EXCEPT ![p] =
                   Asleep([r EXCEPT !.pc = "settle", !.uid = uid,
                                    !.full_name = h.full_name, !.phone = h.phone],
                          clock)]
        \/ /\ outcome = "no_user"
           /\ req' = [req EXCEPT ![p] = Fail(r, 400, DetailRegisterNoUser)]
           /\ UNCHANGED <<identities, meta>>
        \/ /\ outcome = "exception"
           /\ \E msg \in {MsgAlreadyRegistered, MsgInvalidEmail, MsgConfirmation, MsgOther} :
                /\ msg = MsgAlreadyRegistered <=> uid \in identities
                /\ req' = [req EXCEPT ![p] = register_error([r EXCEPT !.msg = msg], msg)]
           /\ UNCHANGED <<identities, meta>>
    /\ started' = started + 1
    /\ UNCHANGED <<clock, users, faults>>

\* POST /auth/login up to the reconciler: supabase.auth.sign_in_with_password.
Login(p, email) ==
    /\ CanStart(p)
    /\ \E outcome \in {"user", "no_user", "exception"} :
        LET r == [Idle EXCEPT !.op = "login", !.email = email, !.at = now,
                           !.provider = outcome]
            uid == IdOf(email) IN
        \/ /\ outcome = "user"
           /\ uid \in identities
           /\ req' = [req EXCEPT ![p] =
                   EnterGet(r, "login", uid, email, NoneVal, NoneVal, NoneVal)]
        \/ /\ outcome = "no_user"
           /\ req' = [req EXCEPT ![p] = Fail(r, 401, DetailInvalidCredentials)]
        \/ /\ outcome = "exception"
           /\ \E msg \in {MsgInvalidCredentials, MsgEmailNotConfirmed, MsgOther},
                 printed \in BOOLEAN :
                /\ msg = MsgEmailNotConfirmed => uid \in identities
                /\ ~printed => ErrorPrints("login", msg)
                /\ req' = [req EXCEPT ![p] =
                        login_error([r EXCEPT !.msg = msg, !.printed = printed],
                                    msg, printed)]
    /\ started' = started + 1
    /\ UNCHANGED <<clock, users, identities, meta, faults>>

\* POST /auth/refresh up to the reconciler: its own jwt.decode and checks.
refresh_token_anykind(r, token, t) ==
    LET d == jwt_decode(token, SECRET_KEY, t)
        r1 == [r EXCEPT !.op = "refresh", !.tok = token, !.at = t] IN
    IF d.exc = "ExpiredSignatureError" THEN Fail(r1, 401, DetailRefreshExpired)
    ELSE IF d.exc # "none" THEN Fail(r1, 401, DetailRefreshInvalid)
    ELSE IF Falsy(d.payload.sub) \/ Falsy(d.payload.email)
        THEN Fail(r1, 401, DetailNoSubject)
    ELSE EnterGet(r1, "refresh", d.payload.sub, d.payload.email,
                  NoneVal, NoneVal, NoneVal)

refresh_token(r, token, t) ==
    LET d == jwt_decode(token, SECRET_KEY, t)
        r1 == [r EXCEPT !.op = "refresh", !.tok = token, !.at = t] IN
    IF d.exc = "ExpiredSignatureError" THEN Fail(r1, 401, DetailRefreshExpired)
    ELSE IF d.exc # "none" THEN Fail(r1, 401, DetailRefreshInvalid)
    ELSE IF d.payload.type # "refresh" THEN Fail(r1, 401, DetailRefreshNotRefresh)
    ELSE IF Falsy(d.payload.sub) \/ Falsy(d.payload.email)
        THEN Fail(r1, 401, DetailNoSubject)
    ELSE EnterGet(r1, "refresh", d.payload.sub, d.payload.email,
                  NoneVal, NoneVal, NoneVal)

Refresh(p, token) ==
    /\ CanStart(p)
    /\ req' = [req EXCEPT ![p] = refresh_token(Idle, token, now)]
    /\ started' = started + 1
    /\ UNCHANGED <<clock, users, identities, meta, faults>>

\* POST /auth/google up to its first await: supabase.auth.sign_in_with_id_token,
\* then asyncio.sleep(0.1) is awaited.
GoogleAuth(p, email, m) ==
    /\ CanStart(p)
    /\ \E outcome \in {"user", "no_user", "exception"} :
        LET r == [Idle EXCEPT !.op = "google", !.email = email, !.at = now,
                           !.provider = outcome]
            uid == IdOf(email) IN
        \/ /\ outcome = "user"
           /\ identities' = identities \cup {uid}
           /\ meta' = [meta EXCEPT ![uid] =
                   IF uid \in identities THEN @
                   ELSE [full_name |-> m.full_name, phone |-> NoneVal]]
           /\ req' = [req EXCEPT ![p] =
                   Asleep([EnterGet(r, "google", uid, email, m.full_name, NoneVal,
                                    m.avatar_url) EXCEPT !.pc = "settle"], clock)]
        \/ /\ outcome = "no_user"
           /\ req' = [req EXCEPT ![p] = Fail(r, 400, DetailGoogleNoUser)]
           /\ UNCHANGED <<identities, meta>>
        \/ /\ outcome = "exception"
           /\ \E msg \in {MsgBadIdToken, MsgOther} :
                req' = [req EXCEPT ![p] = google_error([r EXCEPT !.msg = msg], msg)]
           /\ UNCHANGED <<identities, meta>>
    /\ started' = started + 1
    /\ UNCHANGED <<clock, users, faults>>

\* await asyncio.sleep(0.1) of register and google_auth; register then enters
\* create_user_profile (no read of the profile comes first), google_auth the
\* reconciler.
settle_delay == 100

Settle(p) ==
    /\ req[p].pc = "settle"
    /\ clock' = Wake(req[p], settle_delay)
    /\ req' = [req EXCEPT ![p] =
            IF req[p].op = "register" THEN EnterCreate([req[p] EXCEPT !.since = 0])
            ELSE [req[p] EXCEPT !.pc = "read", !.since = 0]]
    /\ UNCHANGED <<users, identities, meta, started, faults>>

\* google_auth: users.update({avatar_url, full_name}).eq("id", user_id).  The
\* except clause of the update prints and goes on; when that print raises,
\* its exception reaches the except clause of the flow.
GoogleUpdate(p) ==
    /\ req[p].pc = "update"
    /\ LET r == req[p]
           name == IF Falsy(r.full_name) THEN r.profile.full_name ELSE r.full_name IN
       \E outcome \in {"data", "empty", "error"}, printed \in BOOLEAN :
        /\ outcome = "data" => HasRow(users, r.uid)
        /\ outcome = "empty" => ~HasRow(users, r.uid)
        /\ outcome = "error" => faults < MaxFaults
        /\ ~printed => outcome = "error"
        /\ faults' = IF outcome = "error" THEN faults + 1 ELSE faults
        /\ users' = IF outcome = "data"
                    THEN UpdateRows(users, r.uid, r.avatar_url, name) ELSE users
        /\ req' = [req EXCEPT ![p] =
                IF ~printed
                THEN google_error([r EXCEPT !.msg = MsgPrint, !.printed = printed,
                                            !.store = outcome], MsgPrint)
                ELSE [r EXCEPT !.pc = "issue", !.store = outcome,
                               !.profile = IF outcome = "data"
                                           THEN TheRow(users', r.uid) ELSE @]]
    /\ UNCHANGED <<clock, identities, meta, started>>

\* The except clause of the flow that r runs, for an exception raised after
\* the reconciler returned.
flow_error(r, msg, printed) ==
    IF r.op = "register" THEN register_error(r, msg)
    ELSE IF r.op = "login" THEN login_error(r, msg, printed)
    ELSE IF r.op = "refresh" THEN refresh_error(r, msg, printed)
    ELSE google_error(r, msg)

\* The tail of register / login / refresh / google_auth: create_access_token,
\* then create_refresh_token, then the response.  g1 is the seconds that pass
\* between the two clock reads of create_access_token.  An exception of
\* create_refresh_token reaches the except clause of the flow; the access
\* token minted before it stays a local of the handler.  printed is whether
\* the print of that except clause, when it has one, went through.
Issue(p, g1) ==
    /\ req[p].pc = "issue"
    /\ \E printed \in BOOLEAN :
        LET r == req[p]
            a == create_access_token(r.uid, r.email, now, now + g1)
            f == create_refresh_token(r.uid, r.email, now + g1, now + g1)
            r1 == [r EXCEPT !.access = a.token, !.expires_in = a.expires_in,
                            !.agap = g1, !.mint = now]
            user_response ==
                IF r.op = "register"
                THEN UserResponse(r.uid, r.email, r.full_name, r.phone, NoneVal,
                                  r.profile.created_at)
                ELSE UserResponse(r.uid, r.email, r.profile.full_name, r.profile.phone,
                                  r.profile.avatar_url, r.profile.created_at) IN
        /\ ~printed => (f.exc # NoExc /\ ErrorPrints(r.op, f.exc))
        /\ clock' = clock + g1 * 1000
        /\ req' = [req EXCEPT ![p] =
                IF f.exc # NoExc
                THEN flow_error([r1 EXCEPT !.msg = f.exc, !.printed = printed],
                                f.exc, printed)
                ELSE [r1 EXCEPT !.pc = "done",
                                !.status = IF r.op = "register" THEN 201 ELSE 200,
                                !.detail = DetailOk,
                                !.refresh = f.token,
                                !.resp = AuthResponse(a.token, f.token, "bearer",
                                                      a.expires_in, user_response)]]
    /\ UNCHANGED <<users, identities, meta, started, faults>>

\* The print of the auth gate is reached only by a token that passed every
\* check before it.
PrintReached(token, t) ==
    LET v == verify_token(token, "access", t) IN
    v.status = 200 /\ ~Falsy(v.payload.sub)

\* A request whose credentials are checked by the auth gate at its start.
Gated(op, token, printed) ==
    LET g == get_current_user_id(token, now, printed) IN
    [Idle EXCEPT !.op = op, !.tok = token, !.at = now, !.printed = printed,
                 !.status = g.status, !.detail = g.detail, !.user_id = g.user_id]

\* A request that the auth gate turned down.
Denied(r) ==
    [r EXCEPT !.pc = "done", !.resp = ErrorBody(r.detail)]

\* GET /auth/verify: the auth gate alone.
Verify(p, token) ==
    /\ CanStart(p)
    /\ \E printed \in BOOLEAN :
        LET r == Gated("verify", token, printed) IN
        /\ ~printed => PrintReached(token, now)
        /\ req' = [req EXCEPT ![p] =
                IF r.status # 200 THEN Denied(r)
                ELSE [r EXCEPT !.pc = "done",
                               !.resp = MessageResponse(DetailVerified(r.user_id))]]
    /\ started' = started + 1
    /\ UNCHANGED <<clock, users, identities, meta, faults>>

\* POST /auth/logout, its dependencies: the auth gate; the handler then waits
\* for get_supabase, which runs in the thread pool.
Logout(p, token) ==
    /\ CanStart(p)
    /\ \E printed \in BOOLEAN :
        LET r == Gated("logout", token, printed) IN
        /\ ~printed => PrintReached(token, now)
        /\ req' = [req EXCEPT ![p] =
                IF r.status # 200 THEN Denied(r)
                ELSE [r EXCEPT !.pc = "body", !.status = 0, !.detail = NoneVal]]
    /\ started' = started + 1
    /\ UNCHANGED <<clock, users, identities, meta, faults>>

\* POST /auth/logout, its body: supabase.auth.sign_out(), whose failure is
\* swallowed, and the same MessageResponse either way.
LogoutBody(p) ==
    /\ req[p].pc = "body"
    /\ req[p].op = "logout"
    /\ \E outcome \in {"signed_out", "exception"} :
        req' = [req EXCEPT ![p] =
                [req[p] EXCEPT !.pc = "done", !.provider = outcome,
                               !.status = 200, !.detail = DetailLogout,
                               !.resp = MessageResponse(DetailLogout)]]
    /\ UNCHANGED <<clock, users, identities, meta, started, faults>>

\* ------------------------------------------------------------------
\* Profile endpoints and the optional gate
\* ------------------------------------------------------------------
DetailMeNotFound == "Usuario no encontrado. Es posible que tu cuenta haya sido eliminada."
DetailMeError == "Error al obtener informacion del usuario"
DetailUpdateEmpty == "Debes proporcionar al menos un campo para actualizar"
DetailUpdateNotFound == "Usuario no encontrado"
DetailUpdateError(msg) == "Error al actualizar perfil: " \o msg.text

\* What the parameter user_id of AuthDependency.get_current_user receives: its
\* default Depends(get_current_user_id) is evaluated in the class body, where
\* the name is the staticmethod object; called as a plain function it hands
\* back the coroutine, which nobody awaits.
CoroutineObject == "<coroutine object AuthDependency.get_current_user_id>"

\* AuthDependency.get_current_user(user_id), given the answer of the read:
\* "data" (the row), "empty" (a result without data), "no_rows" (single()
\* raised because no row matched) or "error" (any other exception); printed
\* is whether the print of the except clause went through.  exc is the
\* exception that leaves the function uncaught.
get_current_user(user_id, outcome, table, printed) ==
    IF outcome = "data"
        THEN [status |-> 200, detail |-> DetailOk, data |-> TheRow(table, user_id),
              exc |-> NoExc]
    ELSE IF outcome = "empty"
        THEN [status |-> 404, detail |-> DetailMeNotFound, data |-> NoProfile,
              exc |-> NoExc]
    ELSE IF ~printed
        THEN [status |-> 500, detail |-> NoneVal, data |-> NoProfile,
              exc |-> MsgPrint]
    ELSE [status |-> 500, detail |-> DetailMeError, data |-> NoProfile,
          exc |-> NoExc]

\* GET /auth/me: HTTPBearer takes the credentials, get_current_user reads the
\* users table by the coroutine object, then the UserResponse.  The auth gate
\* is never run, and nothing of the request is read or written before the
\* dependencies are resolved: the read is the first step of the request.
GetMe(p, token) ==
    /\ CanStart(p)
    /\ token # NoToken
    /\ \E outcome \in {"data", "empty", "no_rows", "error"}, printed \in BOOLEAN :
        LET u == get_current_user(CoroutineObject, outcome, users, printed)
            r == [Idle EXCEPT !.op = "me", !.tok = token, !.at = now,
                              !.user_id = CoroutineObject, !.printed = printed] IN
        /\ outcome = "data" => HasRow(users, CoroutineObject)
        /\ outcome \in {"empty", "no_rows"} => ~HasRow(users, CoroutineObject)
        /\ outcome = "error" => faults < MaxFaults
        /\ ~printed => outcome \in {"no_rows", "error"}
        /\ faults' = IF outcome = "error" THEN faults + 1 ELSE faults
        /\ req' = [req EXCEPT ![p] =
                LET r1 == [r EXCEPT !.store = outcome] IN
                IF u.exc # NoExc THEN Unhandled(r1, u.exc)
                ELSE IF u.status # 200 THEN Fail(r1, u.status, u.detail)
                ELSE [r1 EXCEPT !.pc = "done",
                                !.status = u.status, !.detail = u.detail,
                                !.resp = UserResponse(u.data.id, u.data.email,
                                            u.data.full_name, u.data.phone,
                                            u.data.avatar_url, u.data.created_at)]]
    /\ started' = started + 1
    /\ UNCHANGED <<clock, users, identities, meta>>

\* update_profile: the dict of the fields of the body that are not None.
update_data(data) ==
    [f \in {k \in {"full_name", "phone", "avatar_url"} : data[k] # NoneVal} |-> data[f]]

\* PUT /auth/me, its dependencies: the auth gate; the handler then waits for
\* get_supabase, which runs in the thread pool.
UpdateProfile(p, token, data) ==
    /\ CanStart(p)
    /\ \E printed \in BOOLEAN :
        LET r == [Gated("update_profile", token, printed) EXCEPT !.body = data] IN
        /\ ~printed => PrintReached(token, now)
        /\ req' = [req EXCEPT ![p] =
                IF r.status # 200 THEN Denied(r)
                ELSE [r EXCEPT !.pc = "body", !.status = 0, !.detail = NoneVal]]
    /\ started' = started + 1
    /\ UNCHANGED <<clock, users, identities, meta, faults>>

\* PUT /auth/me, its body: the dict of supplied fields, the update and the
\* UserResponse of the first row that came back.
UpdateBody(p) ==
    /\ req[p].pc = "body"
    /\ req[p].op = "update_profile"
    /\  LET r == req[p]
            data == r.body IN
        \/ /\ DOMAIN update_data(data) = {}
           /\ req' = [req EXCEPT ![p] = Fail(r, 400, DetailUpdateEmpty)]
           /\ UNCHANGED <<users, faults>>
        \/ /\ DOMAIN update_data(data) # {}
           /\ \E outcome \in {"data", "empty", "error"} :
                /\ outcome = "data" => HasRow(users, r.user_id)
                /\ outcome = "empty" => ~HasRow(users, r.user_id)
                /\ outcome = "error" => faults < MaxFaults
                /\ faults' = IF outcome = "error" THEN faults + 1 ELSE faults
                /\ users' = IF outcome = "data"
                            THEN UpdateWith(users, r.user_id, update_data(data))
                            ELSE users
                /\ req' = [req EXCEPT ![p] =
                        IF outcome = "data"
                        THEN LET u == TheRow(users', r.user_id) IN
                             [r EXCEPT !.pc = "done", !.store = outcome,
                                       !.status = 200, !.detail = DetailOk,
                                       !.resp = UserResponse(u.id, u.email, u.full_name,
                                                    u.phone, u.avatar_url, u.created_at)]
                        ELSE IF outcome = "empty"
                        THEN Fail([r EXCEPT !.store = outcome], 404, DetailUpdateNotFound)
                        ELSE Fail([r EXCEPT !.store = outcome], 500, DetailUpdateError(MsgStore))]
    /\ UNCHANGED <<clock, identities, meta, started>>

\* get_optional_user_id(credentials) at time t; NoToken stands for a request
\* without credentials.
get_optional_user_id(token, t, printed) ==
    IF token = NoToken
        THEN [status |-> 200, detail |-> DetailOk, user_id |-> NoneVal]
    ELSE LET g == get_current_user_id(token, t, printed) IN
         IF g.status # 200
            THEN [status |-> 200, detail |-> DetailOk, user_id |-> NoneVal]
         ELSE [status |-> 200, detail |-> DetailOk, user_id |-> g.user_id]

\* An endpoint that depends on get_optional_user_id.
OptionalUser(p, token) ==
    /\ CanStart(p)
    /\ \E printed \in BOOLEAN :
        LET o == get_optional_user_id(token, now, printed) IN
        /\ ~printed => PrintReached(token, now)
        /\ req' = [req EXCEPT ![p] =
            [Idle EXCEPT !.pc = "done", !.op = "optional", !.tok = token, !.at = now,
                           !.printed = printed,
                           !.status = o.status, !.detail = o.detail,
                           !.user_id = o.user_id]]
    /\ started' = started + 1
    /\ UNCHANGED <<clock, users, identities, meta, faults>>

\* DELETE /profile/avatar (app/routers/profile.py)
DetailAvatarNotFound == "Usuario no encontrado"
DetailAvatarNone == "El usuario no tiene avatar para eliminar"
DetailAvatarError(msg) == "Error al eliminar avatar: " \o msg.text
DetailAvatarDeleted == "Avatar eliminado exitosamente"

\* Its dependencies: the auth gate; the handler then waits for
\* get_service_supabase, which runs in the thread pool.
DeleteAvatar(p, token) ==
    /\ CanStart(p)
    /\ \E printed \in BOOLEAN :
        LET r == Gated("delete_avatar", token, printed) IN
        /\ ~printed => PrintReached(token, now)
        /\ req' = [req EXCEPT ![p] =
                IF r.status # 200 THEN Denied(r)
                ELSE [r EXCEPT !.pc = "body", !.status = 0, !.detail = NoneVal]]
    /\ started' = started + 1
    /\ UNCHANGED <<clock, users, identities, meta, faults>>

\* delete_old_avatar(supabase, user_id, old_avatar_url): for a URL of the
\* bucket the file is removed and a print follows; an exception of either
\* reaches the except clause, which prints it.  removed, printed and
\* printed_error are whether the removal and the two prints went through; the
\* result is the exception that leaves the function, NoExc when none does.
delete_old_avatar(old_avatar_url, removed, printed, printed_error) ==
    IF Falsy(old_avatar_url) THEN NoExc
    ELSE IF AvatarPath(old_avatar_url) = NoneVal THEN NoExc
    ELSE IF removed /\ printed THEN NoExc
    ELSE IF printed_error THEN NoExc
    ELSE MsgPrint

\* Its body: the read of the current avatar, delete_old_avatar and the update
\* that clears avatar_url.
DeleteBody(p) ==
    /\ req[p].pc = "body"
    /\ req[p].op = "delete_avatar"
    /\  LET r == req[p] IN
        \E outcome \in {"data", "empty", "no_rows", "error", "update_error"},
           removed \in BOOLEAN, printed \in BOOLEAN, printed_error \in BOOLEAN :
            LET avatar_url == IF HasRow(users, r.user_id)
                              THEN TheRow(users, r.user_id).avatar_url ELSE NoneVal
                read == outcome \in {"data", "update_error"}
                old == IF read /\ ~Falsy(avatar_url)
                       THEN delete_old_avatar(avatar_url, removed, printed, printed_error)
                       ELSE NoExc
                r1 == [r EXCEPT !.store = outcome] IN
            /\ read => HasRow(users, r.user_id)
            /\ outcome \in {"empty", "no_rows"} => ~HasRow(users, r.user_id)
            /\ outcome = "error" => faults < MaxFaults
            /\ outcome = "update_error" =>
                    /\ faults < MaxFaults
                    /\ ~Falsy(avatar_url)
                    /\ old = NoExc
            /\ ~(removed /\ printed /\ printed_error) =>
                    /\ read
                    /\ AvatarPath(avatar_url) # NoneVal
            /\ ~printed => removed
            /\ ~printed_error => ~(removed /\ printed)
            /\ faults' = IF outcome \in {"error", "update_error"}
                         THEN faults + 1 ELSE faults
            /\ users' = IF outcome = "data" /\ ~Falsy(avatar_url) /\ old = NoExc
                        THEN UpdateWith(users, r.user_id, [avatar_url |-> NoneVal])
                        ELSE users
            /\ req' = [req EXCEPT ![p] =
                    IF outcome = "empty" THEN Fail(r1, 404, DetailAvatarNotFound)
                    ELSE IF outcome = "no_rows"
                        THEN Fail(r1, 500, DetailAvatarError(MsgNoRows))
                    ELSE IF outcome = "error"
                        THEN Fail(r1, 500, DetailAvatarError(MsgStore))
                    ELSE IF Falsy(avatar_url)
                        THEN Fail(r1, 400, DetailAvatarNone)
                    ELSE IF old # NoExc
                        THEN Fail([r1 EXCEPT !.printed = FALSE], 500,
                                  DetailAvatarError(old))
                    ELSE IF outcome = "update_error"
                        THEN Fail(r1, 500, DetailAvatarError(MsgStore))
                    ELSE [r1 EXCEPT !.pc = "done", !.status = 200,
                                    !.detail = DetailAvatarDeleted,
                                    !.resp = MessageResponse(DetailAvatarDeleted)]]
    /\ UNCHANGED <<clock, identities, meta, started>>

\* ProfileResponse of app/routers/profile.py.
ProfileResponse(id, email, full_name, avatar_url, message) ==
    [id |-> id, email |-> email, full_name |-> full_name,
     avatar_url |-> avatar_url, message |-> message]

\* updated_user.get("email", ""): a row of the users table carries the columns
\* the code writes and created_at, and no key "email".
EmailOr(row, default) == IF row.email = NoneVal THEN default ELSE row.email

\* PUT /profile/name (app/routers/profile.py)
DetailNameUpdated == "Nombre actualizado exitosamente"
DetailNameNotFound == "Usuario no encontrado"
DetailNameError(msg) == "Error al actualizar nombre: " \o msg.text

\* Bodies of PUT /profile/name that pass the schema (1 to 100 characters).
NameBodies == {[full_name |-> "Ana M"]}

\* Its dependencies: the auth gate; the handler then waits for
\* get_service_supabase, which runs in the thread pool.
UpdateName(p, token, data) ==
    /\ CanStart(p)
    /\ \E printed \in BOOLEAN :
        LET r == [Gated("update_name", token, printed) EXCEPT !.body = data] IN
        /\ ~printed => PrintReached(token, now)
        /\ req' = [req EXCEPT ![p] =
                IF r.status # 200 THEN Denied(r)
                ELSE [r EXCEPT !.pc = "body", !.status = 0, !.detail = NoneVal]]
    /\ started' = started + 1
    /\ UNCHANGED <<clock, users, identities, meta, faults>>

\* Its body: users.update({"full_name": data.full_name}).eq("id", user_id)
\* and the ProfileResponse of the first row that came back.
UpdateNameBody(p) ==
    /\ req[p].pc = "body"
    /\ req[p].op = "update_name"
    /\ LET r == req[p] IN
       \E outcome \in {"data", "empty", "error"} :
        /\ outcome = "data" => HasRow(users, r.user_id)
        /\ outcome = "empty" => ~HasRow(users, r.user_id)
        /\ outcome = "error" => faults < MaxFaults
        /\ faults' = IF outcome = "error" THEN faults + 1 ELSE faults
        /\ users' = IF outcome = "data"
                    THEN UpdateWith(users, r.user_id,
                                    [full_name |-> r.body.full_name])
                    ELSE users
        /\ req' = [req EXCEPT ![p] =
                LET r1 == [r EXCEPT !.store = outcome] IN
                IF outcome = "data"
                THEN LET u == TheRow(users', r.user_id) IN
                     [r1 EXCEPT !.pc = "done", !.status = 200,
                                !.detail = DetailNameUpdated,
                                !.resp = ProfileResponse(u.id, EmailOr(u, ""),
                                            u.full_name, u.avatar_url,
                                            DetailNameUpdated)]
                ELSE IF outcome = "empty"
                THEN Fail(r1, 404, DetailNameNotFound)
                ELSE Fail(r1, 500, DetailNameError(MsgStore))]
    /\ UNCHANGED <<clock, identities, meta, started>>

\* POST /profile/avatar (app/routers/profile.py)
DetailNotImage == "El archivo debe ser una imagen"
DetailTooBig == "El archivo es demasiado grande. Maximo: 5.0MB"
DetailUploadNotFound == "Usuario no encontrado"
DetailUploadError(msg) == "Error al subir avatar: " \o msg.text
DetailUploaded == "Avatar actualizado exitosamente"

\* ', '.join(ALLOWED_EXTENSIONS): the extensions in the order in which the set
\* is iterated, which the hash seed of the process decides.
ExtensionOrders ==
    {o \in [1..4 -> ALLOWED_EXTENSIONS] : \A i, j \in 1..4 : i # j => o[i] # o[j]}
DetailFormat(order) ==
    "Formato de archivo no permitido. Usa: "
        \o order[1] \o ", " \o order[2] \o ", " \o order[3] \o ", " \o order[4]

\* The files a client uploads: the name as os.path.splitext cuts it, the
\* content type around its "/", the number of bytes.
File(root, ext, type, subtype, size) ==
    [filename |-> [root |-> root, ext |-> ext],
     content_type |-> [type |-> type, subtype |-> subtype], size |-> size]
Files ==
    {File("me", ".PNG", "image", "png", 2048),
     File("me", ".gif", "image", "gif", 2048),
     File("me", ".png", "text", "plain", 2048),
     File("me", ".png", "image", "png", 2 * 1024 * 1024),
     File("me", ".webp", "image", "webp", MAX_FILE_SIZE + 1)}

\* get_file_extension(filename) = os.path.splitext(filename)[1].lower(), on
\* the extensions that occur.
get_file_extension(filename) ==
    IF filename.ext = ".PNG" THEN ".png" ELSE filename.ext

\* validate_image(file): the detail of the HTTPException 400 it raises, None
\* when it returns.
validate_image(file, order) ==
    IF get_file_extension(file.filename) \notin ALLOWED_EXTENSIONS
        THEN DetailFormat(order)
    ELSE IF file.content_type.type # "image" THEN DetailNotImage
    ELSE NoneVal

\* Its dependencies: the auth gate; the handler then waits for
\* get_service_supabase, which runs in the thread pool.
UploadAvatar(p, token, file) ==
    /\ CanStart(p)
    /\ \E printed \in BOOLEAN :
        LET r == [Gated("upload_avatar", token, printed) EXCEPT !.body = file] IN
        /\ ~printed => PrintReached(token, now)
        /\ req' = [req EXCEPT ![p] =
                IF r.status # 200 THEN Denied(r)
                ELSE [r EXCEPT !.pc = "body", !.status = 0, !.detail = NoneVal]]
    /\ started' = started + 1
    /\ UNCHANGED <<clock, users, identities, meta, faults>>

\* upload_avatar: the except clause for an exception that is no HTTPException:
\* a print, then the answer of status 500.
upload_error(r, msg, printed) ==
    IF ~printed THEN Unhandled([r EXCEPT !.printed = FALSE], MsgPrint)
    ELSE Fail(r, 500, DetailUploadError(msg))

\* upload_avatar from len(contents) on: the size check; the read of the
\* current avatar ("no_rows": single() raised because no row matched; "empty":
\* a result without data); the upload to the bucket; the update of avatar_url;
\* delete_old_avatar for the avatar that was replaced; the ProfileResponse.
\* "error", "upload_error" and "update_error" are a failure of the read, of
\* the upload and of the update; printed_upload is whether the print of the
\* except clause went through.
UploadContents(p) ==
    LET r == req[p]
        file == r.body
        file_ext == get_file_extension(file.filename) IN
        \/ /\ file.size > MAX_FILE_SIZE
           /\ req' = [req EXCEPT ![p] = Fail(r, 400, DetailTooBig)]
           /\ UNCHANGED <<users, faults>>
        \/ /\ file.size <= MAX_FILE_SIZE
           /\ \E outcome \in {"data", "empty", "no_rows", "error", "upload_error",
                               "update_error"},
                 removed \in BOOLEAN, printed \in BOOLEAN, printed_error \in BOOLEAN,
                 printed_upload \in BOOLEAN :
                LET read == outcome \in {"data", "upload_error", "update_error"}
                    old_avatar_url == IF HasRow(users, r.user_id)
                                      THEN TheRow(users, r.user_id).avatar_url
                                      ELSE NoneVal
                    public_url == get_public_url(file_path(r.user_id, file_ext))
                    old == IF outcome = "data" /\ ~Falsy(old_avatar_url)
                           THEN delete_old_avatar(old_avatar_url, removed, printed,
                                                  printed_error)
                           ELSE NoExc
                    r1 == [r EXCEPT !.store = outcome] IN
                /\ read => HasRow(users, r.user_id)
                /\ outcome \in {"empty", "no_rows"} => ~HasRow(users, r.user_id)
                /\ outcome \in {"error", "upload_error", "update_error"}
                        => faults < MaxFaults
                /\ ~(removed /\ printed /\ printed_error) =>
                        /\ outcome = "data"
                        /\ AvatarPath(old_avatar_url) # NoneVal
                /\ ~printed => removed
                /\ ~printed_error => ~(removed /\ printed)
                /\ ~printed_upload => (outcome \notin {"data", "empty"} \/ old # NoExc)
                /\ faults' = IF outcome \in {"error", "upload_error", "update_error"}
                             THEN faults + 1 ELSE faults
                /\ users' = IF outcome = "data"
                            THEN UpdateWith(users, r.user_id, [avatar_url |-> public_url])
                            ELSE users
                /\ req' = [req EXCEPT ![p] =
                        IF outcome = "no_rows"
                            THEN upload_error(r1, MsgNoRows, printed_upload)
                        ELSE IF outcome = "empty"
                            THEN Fail(r1, 404, DetailUploadNotFound)
                        ELSE IF outcome # "data"
                            THEN upload_error(r1, MsgStore, printed_upload)
                        ELSE IF old # NoExc
                            THEN upload_error(r1, old, printed_upload)
                        ELSE LET u == TheRow(users', r.user_id) IN
                             [r1 EXCEPT !.pc = "done", !.status = 200,
                                        !.detail = DetailUploaded,
                                        !.resp = ProfileResponse(u.id, EmailOr(u, ""),
                                                    u.full_name, u.avatar_url,
                                                    DetailUploaded)]]

\* Its body up to contents = await file.read(): validate_image, then the
\* read. An UploadFile keeps up to 1 MB in memory and writes a larger one to
\* disk; the read of one on disk runs in the thread pool and the handler
\* waits for it, the read of one in memory returns at once and the handler
\* goes on in the same step.
UploadBody(p) ==
    /\ req[p].pc = "body"
    /\ req[p].op = "upload_avatar"
    /\  LET r == req[p]
            file == r.body IN
        \/ /\ \E order \in ExtensionOrders :
                /\ validate_image(file, order) # NoneVal
                /\ req' = [req EXCEPT ![p] = Fail(r, 400, validate_image(file, order))]
           /\ UNCHANGED <<users, faults>>
        \/ /\ \A order \in ExtensionOrders : validate_image(file, order) = NoneVal
           /\ file.size > 1024 * 1024
           /\ req' = [req EXCEPT ![p] = [r EXCEPT !.pc = "contents"]]
           /\ UNCHANGED <<users, faults>>
        \/ /\ \A order \in ExtensionOrders : validate_image(file, order) = NoneVal
           /\ file.size <= 1024 * 1024
           /\ UploadContents(p)
    /\ UNCHANGED <<clock, identities, meta, started>>

\* The rest of its body, once the read of a file on disk has returned.
UploadRead(p) ==
    /\ req[p].pc = "contents"
    /\ req[p].op = "upload_avatar"
    /\ UploadContents(p)
    /\ UNCHANGED <<clock, identities, meta, started>>

\* The requests of the profile endpoints, with inputs from the given sets.
ProfileRequests(procs, tokens, bodies, names, files) ==
    \E p \in procs :
        \/ \E token \in tokens : GetMe(p, token)
        \/ \E token \in tokens, data \in bodies : UpdateProfile(p, token, data)
        \/ \E token \in tokens \cup {NoToken} : OptionalUser(p, token)
        \/ \E token \in tokens : DeleteAvatar(p, token)
        \/ \E token \in tokens, data \in names : UpdateName(p, token, data)
        \/ \E token \in tokens, file \in files : UploadAvatar(p, token, file)

\* The bodies of the profile endpoints, once their dependencies are resolved.
ProfileBodies(procs) ==
    \E p \in procs :
        \/ UpdateBody(p)
        \/ DeleteBody(p)
        \/ UpdateNameBody(p)
        \/ UploadBody(p)
        \/ UploadRead(p)

\* The store's own trigger materialises the row of a known identity.
Trigger ==
    /\ \E uid \in identities :
        LET row == Row(uid, meta[uid].full_name, meta[uid].phone, NoneVal, now) IN
        /\ InsertAccepted(users, row)
        /\ users' = Append(users, row)
    /\ UNCHANGED <<clock, identities, meta, req, started, faults>>

\* Time passes, whatever the handlers are doing: the clock reaches second t.
Advance(t) ==
    /\ t * 1000 > clock
    /\ clock' = t * 1000
    /\ UNCHANGED <<users, identities, meta, req, started, faults>>

\* The requests of the four flows, with inputs from the given sets.
FlowRequests(procs, emails, hints, gmeta, tokens) ==
    \E p \in procs :
        \/ \E email \in emails, h \in hints : Register(p, email, h)
        \/ \E email \in emails : Login(p, email)
        \/ \E email \in emails, m \in gmeta : GoogleAuth(p, email, m)
        \/ \E token \in tokens : Refresh(p, token)

\* The requests of the endpoints that only pass the auth gate, and the body
\* of logout once its dependencies are resolved.
GateRequests(procs, tokens) ==
    \E p \in procs :
        \/ \E token \in tokens : Verify(p, token)
        \/ \E token \in tokens : Logout(p, token)
        \/ LogoutBody(p)

\* Every later step of a flow in flight.
Steps(procs, gaps) ==
    \E p \in procs :
        \/ Settle(p)
        \/ ReadProfile(p)
        \/ ReadSleep(p)
        \/ InsertProfile(p)
        \/ InsertSleep(p)
        \/ GoogleUpdate(p)
        \/ \E g1 \in gaps : Issue(p, g1)

\* The token presented in the concurrent runs: a refresh token of the first
\* account, signed with the service's key.
FlowTokens == {Signed("u1", "a@x.com", "refresh")}

\* Two concurrent flows against a store that may fail twice and that answers
\* the read of a missing row in any of its three ways; the clock moves in the
\* sleeps of the handlers.
Next ==
    \/ /\ started < MaxFlows
       /\ FlowRequests(Procs, {"a@x.com"}, {[full_name |-> "Ana", phone |-> "555"]},
                       {[full_name |-> "Ana G", avatar_url |-> "pic1"]}, FlowTokens)
    \/ Steps(Procs, {0})
    \/ Trigger

Spec == Init /\ [][Next]_vars

\* Sessions over time: one account, a store that seldom fails, a clock that
\* jumps around the expiry instants, clients that present crafted tokens.
SessionProcs == {"p1"}

InitSession ==
    /\ clock \in Phases
    /\ users = <<>>
    /\ identities = {}
    /\ meta = [u \in Users |-> NoMeta]
    /\ req = [p \in Procs |-> Idle]
    /\ started = 0
    /\ faults = MaxFaults - 1

NextSession ==
    \/ FlowRequests(SessionProcs, {"a@x.com"}, {[full_name |-> "Ana", phone |-> "555"]},
                    {[full_name |-> "Ana G", avatar_url |-> "pic1"]}, Presentable)
    \/ GateRequests(SessionProcs, Presentable)
    \/ Steps(SessionProcs, 0..MaxClockGap)
    \/ Trigger
    \/ \E t \in TimePoints : Advance(t)

SpecSession == InitSession /\ [][NextSession]_vars

\* The profile endpoints of two accounts, at a clock that moves at any moment:
\* handler p1 serves registrations and logins, also while a request of p2
\* waits for its dependencies; handler p2 serves the profile requests and the
\* logins that are sent when nothing else is in flight.
AccountProcs == {"p1", "p2"}
AccountTokens ==
    {Signed("u1", "a@x.com", "access"), Signed("u2", "b@x.com", "access"),
     GarbageToken, OrphanToken, Signed(NoneVal, "a@x.com", "access")}
Quiet == \A p \in Procs : req[p].pc \in {"idle", "done"}

InitAccount ==
    /\ clock = 0
    /\ users = <<>>
    /\ identities = {}
    /\ meta = [u \in Users |-> NoMeta]
    /\ req = [p \in Procs |-> Idle]
    /\ started = 0
    /\ faults = MaxFaults - 1

NextAccount ==
    \/ \E email \in {"a@x.com", "b@x.com"} :
            Register("p1", email, [full_name |-> "Ana", phone |-> "555"])
    \/ Login("p1", "a@x.com")
    \/ /\ Quiet
       /\ Login("p2", "a@x.com")
    \/ /\ Quiet
       /\ ProfileRequests({"p2"}, AccountTokens, UpdateBodies, NameBodies,
                          {File("me", ".png", "image", "png", 2 * 1024 * 1024)})
    \/ ProfileBodies({"p2"})
    \/ \E p \in AccountProcs :
        \/ Settle(p)
        \/ ReadProfile(p)
        \/ ReadSleep(p)
        \/ InsertProfile(p)
        \/ InsertSleep(p)
        \/ Issue(p, 0)
    \/ \E t \in {1, AccessTtl} : Advance(t)

SpecAccount == InitAccount /\ [][NextAccount]_vars

\* Every operation of the API that touches the users table, run by one handler
\* at a time: register, login, Google login, refresh, verify, logout, and the
\* profile endpoints of routers/auth.py and routers/profile.py, with crafted
\* tokens.
OpsProcs == {"p1"}
OpsTokens ==
    {Signed("u1", "a@x.com", "access"), Signed("u1", "a@x.com", "refresh"),
     GarbageToken, Signed(NoneVal, "a@x.com", "access"),
     Signed(NoneVal, "a@x.com", "refresh"),
     PostdatedAccess, PostdatedRefresh, Misdated}
OpsGoogleMeta == {[full_name |-> "Ana G", avatar_url |-> "pic1"],
                  [full_name |-> "Ana G", avatar_url |-> NoneVal]}

InitOps ==
    /\ clock = 0
    /\ users = <<>>
    /\ identities = {}
    /\ meta = [u \in Users |-> NoMeta]
    /\ req = [p \in Procs |-> Idle]
    /\ started = 0
    /\ faults = MaxFaults - 1

NextOps ==
    \/ \E email \in {"a@x.com", "b@x.com"} :
            Register("p1", email, [full_name |-> "Ana", phone |-> "555"])
    \/ Login("p1", "a@x.com")
    \/ \E m \in OpsGoogleMeta : GoogleAuth("p1", "a@x.com", m)
    \/ \E token \in OpsTokens : Refresh("p1", token)
    \/ GateRequests(OpsProcs, OpsTokens)
    \/ ProfileRequests(OpsProcs, OpsTokens, UpdateBodies, NameBodies, Files)
    \/ ProfileBodies(OpsProcs)
    \/ Steps(OpsProcs, {0})
    \/ Advance(AccessTtl)

SpecOps == InitOps /\ [][NextOps]_vars

\* One handler under the event loop's scheduling: a coroutine that can take
\* its next step (a store call that was answered, a sleep that ended) takes
\* it; nothing obliges a client to send a further request, nor the store's
\* trigger to fire.
LiveProcs == {"p1"}

LiveStep(p) ==
    \/ Settle(p)
    \/ ReadProfile(p)
    \/ ReadSleep(p)
    \/ InsertProfile(p)
    \/ InsertSleep(p)
    \/ GoogleUpdate(p)
    \/ Issue(p, 0)

InitLive ==
    /\ clock \in Phases
    /\ users = <<>>
    /\ identities = {}
    /\ meta = [u \in Users |-> NoMeta]
    /\ req = [p \in Procs |-> Idle]
    /\ started = 0
    /\ faults = 0

NextLive ==
    \/ FlowRequests(LiveProcs, {"a@x.com"}, RegisterHints, GoogleMeta, FlowTokens)
    \/ \E p \in LiveProcs : LiveStep(p)
    \/ Trigger

SpecLive == InitLive /\ [][NextLive]_vars /\ \A p \in LiveProcs : WF_vars(LiveStep(p))


\* ------------------------------------------------------------------
\* Properties
\* ------------------------------------------------------------------
Flows == {"register", "login", "refresh", "google"}
GateCall(p) == req[p].pc = "done" /\ req[p].op \in {"verify", "logout"}
WellSigned(token) == token.form = "jws" /\ token.key = SECRET_KEY
Done(p, op) == req[p].pc = "done" /\ req[p].op = op

\* A token that passes every check of verify_token for its own kind at time t.
ValidAt(token, t) ==
    /\ WellSigned(token)
    /\ token.iat <= t
    /\ t < token.exp
    /\ token.type \in {"access", "refresh"}
    /\ ~Falsy(token.sub)

\* Flow p reached the token issuer and was answered.
Minted(p) == req[p].pc = "done" /\ req[p].op \in Flows /\ req[p].access # NoToken

\* The body of the answer of p carries no token.
NoPair(p) ==
    /\ "access_token" \notin DOMAIN req[p].resp
    /\ "refresh_token" \notin DOMAIN req[p].resp

\* What verify_token answers for the token a flow minted, against the inputs
\* of that flow.
RoundTrip(p, token, kind) ==
    LET v == verify_token(token, kind, now) IN
    /\ token # NoToken
    /\ now < token.exp =>
        /\ v.status = 200
        /\ v.payload.sub = req[p].uid
        /\ v.payload.email = req[p].email
        /\ v.payload.type = kind

\* C1 as claimed: create_access_token and create_refresh_token each produce a
\* token that verifies for its own kind before its expiry, with the same sub
\* and email and type equal to the kind, and the access token's exp - iat is
\* the configured TTL.
C1_Claimed ==
    \A p \in Procs : Minted(p) =>
        /\ RoundTrip(p, req[p].access, "access")
        /\ RoundTrip(p, req[p].refresh, "refresh")
        /\ req[p].access.exp - req[p].access.iat = AccessTtl

\* C2: an issued token (iat <= now), correctly signed and unexpired, that is
\* verified with the other kind is rejected with the kind-mismatch answer: a
\* refresh token by verify_token(expected access), also at the auth gate, and
\* an access token (presented or just minted) by verify_token(expected
\* refresh).  A token of the other kind is never accepted, whatever the time:
\* before its iat it is turned away as malformed, from its exp on as expired.
C2_KindMismatch ==
    /\ \A token \in Presentable :
        (WellSigned(token) /\ token.type \in {"access", "refresh"}) =>
            LET v == verify_token(token, OtherKind(token.type), now) IN
            /\ v.status = 401
            /\ (token.iat <= now /\ now < token.exp)
                => v.detail = DetailKind(OtherKind(token.type))
            /\ now < token.iat => v.detail = DetailMalformed
    /\ \A p \in Procs :
        (req[p].access # NoToken /\ now < req[p].access.exp) =>
            LET v == verify_token(req[p].access, "refresh", now) IN
            v.status = 401 /\ v.detail = DetailKindRefresh
    /\ \A p \in Procs :
        (GateCall(p) /\ WellSigned(req[p].tok) /\ req[p].tok.type = "refresh") =>
            /\ req[p].status = 401
            /\ req[p].user_id = NoneVal
            /\ (req[p].tok.iat <= req[p].at /\ req[p].at < req[p].tok.exp)
                => req[p].detail = DetailKindAccess
            /\ req[p].at < req[p].tok.iat => req[p].detail = DetailMalformed

\* the gate turned away an issued, unexpired refresh token that carries a
\* subject, and the access token of the same subject is turned away when a
\* refresh token is expected
C2_Witness ==
    \E p \in Procs :
        /\ GateCall(p)
        /\ req[p].tok = Signed("u1", "a@x.com", "refresh")
        /\ req[p].tok.iat <= req[p].at
        /\ req[p].at < req[p].tok.exp
        /\ req[p].detail = DetailKindAccess
        /\ verify_token(Signed("u1", "a@x.com", "access"), "refresh", req[p].at).detail
                = DetailKindRefresh

\* C3 as claimed: a correctly signed token checked at a time t >= exp is
\* answered Expired, and checked at any time t < exp it passes the decode, at
\* the auth gate and in the refresh endpoint's own decode.
C3_Claimed ==
    /\ \A p \in Procs :
        (GateCall(p) /\ WellSigned(req[p].tok)) =>
            /\ req[p].at >= req[p].tok.exp
                => (req[p].status = 401 /\ req[p].detail = DetailExpired)
            /\ req[p].at < req[p].tok.exp
                => req[p].detail \notin {DetailExpired, DetailMalformed}
    /\ \A p \in Procs :
        (req[p].op = "refresh" /\ WellSigned(req[p].tok)) =>
            /\ req[p].at >= req[p].tok.exp
                => (req[p].pc = "done" /\ req[p].status = 401
                    /\ req[p].detail = DetailRefreshExpired)
            /\ (req[p].at < req[p].tok.exp /\ req[p].tok.type = "refresh")
                => req[p].detail \notin {DetailRefreshExpired, DetailRefreshInvalid}

\* C3 amended: a correctly signed token checked at a time t with iat <= t is
\* answered Expired exactly when t >= exp, by the auth gate and by the refresh
\* endpoint's own decode; checked at iat <= t < exp (one second before exp
\* included) a token of the expected kind with a subject passes verify_token
\* and the decode; checked before its iat it is rejected as invalid (malformed
\* at the gate, "Refresh token invalido" at refresh), whatever its exp.
C3_ExpiryBoundary ==
    /\ \A p \in Procs :
        (GateCall(p) /\ WellSigned(req[p].tok)) =>
            /\ req[p].at < req[p].tok.iat
                => (req[p].status = 401 /\ req[p].detail = DetailMalformed)
            /\ (req[p].tok.iat <= req[p].at /\ req[p].at >= req[p].tok.exp)
                => (req[p].status = 401 /\ req[p].detail = DetailExpired)
            /\ (req[p].tok.iat <= req[p].at /\ req[p].at < req[p].tok.exp)
                => req[p].detail \notin {DetailExpired, DetailMalformed}
    /\ \A p \in Procs :
        (req[p].op = "refresh" /\ WellSigned(req[p].tok)) =>
            /\ req[p].at < req[p].tok.iat
                => (req[p].pc = "done" /\ req[p].status = 401
                    /\ req[p].detail = DetailRefreshInvalid)
            /\ (req[p].tok.iat <= req[p].at /\ req[p].at >= req[p].tok.exp)
                => (req[p].pc = "done" /\ req[p].status = 401
                    /\ req[p].detail = DetailRefreshExpired)
            /\ (req[p].tok.iat <= req[p].at /\ req[p].at < req[p].tok.exp
                    /\ req[p].tok.type = "refresh")
                => req[p].detail \notin {DetailRefreshExpired, DetailRefreshInvalid}
    /\ \A token \in Presentable : WellSigned(token) =>
        /\ now < token.iat
            => verify_token(token, token.type, now).detail = DetailMalformed
        /\ (token.iat <= now /\ now >= token.exp)
            => verify_token(token, token.type, now).detail = DetailExpired
        /\ ValidAt(token, now)
            => verify_token(token, token.type, now).status = 200

\* the gate answered Expired at the very second exp for a token that passes
\* one second earlier, and the token issued for that second, which the gate
\* accepts then, is turned away as malformed one second before
C3_Witness ==
    \E p \in Procs :
        /\ GateCall(p)
        /\ req[p].tok = Signed("u1", "a@x.com", "access")
        /\ req[p].at = req[p].tok.exp
        /\ req[p].detail = DetailExpired
        /\ get_current_user_id(req[p].tok, req[p].at - 1, TRUE).status = 200
        /\ req[p].at = PostdatedAccess.iat
        /\ get_current_user_id(PostdatedAccess, req[p].at, TRUE).status = 200
        /\ get_current_user_id(PostdatedAccess, req[p].at - 1, TRUE).detail
                = DetailMalformed

\* C4: the auth gate answers either 200 with the sub of a correctly signed
\* access-kind token that has a sub and is checked within its validity
\* (iat <= now < exp), or 401 without a subject id.
C4_GateOutcome ==
    \A p \in Procs : GateCall(p) =>
        \/ /\ req[p].status = 200
           /\ req[p].user_id = req[p].tok.sub
           /\ WellSigned(req[p].tok)
           /\ req[p].tok.iat <= req[p].at
           /\ req[p].at < req[p].tok.exp
           /\ req[p].tok.type = "access"
           /\ ~Falsy(req[p].tok.sub)
        \/ /\ req[p].status = 401
           /\ req[p].user_id = NoneVal

\* a correctly signed, unexpired access token with a sub was turned away one
\* second before its iat
C4_Witness ==
    \E p \in Procs :
        /\ GateCall(p)
        /\ WellSigned(req[p].tok)
        /\ req[p].tok.type = "access"
        /\ ~Falsy(req[p].tok.sub)
        /\ req[p].at = req[p].tok.iat - 1
        /\ req[p].at < req[p].tok.exp
        /\ req[p].status = 401
        /\ req[p].user_id = NoneVal

\* C5 as claimed: whatever requests were served before, a token whose exp is
\* still ahead keeps working for its own kind: the gate accepts an access
\* token (also after logout was called with it) and a refresh token can be
\* used to refresh (also after it was used).
C5_Claimed ==
    \A p \in Procs : (req[p].pc = "done" /\ ValidAt(req[p].tok, req[p].at)) =>
        /\ (req[p].op \in {"verify", "logout"} /\ req[p].tok.type = "access")
            => req[p].status = 200
        /\ (req[p].op = "refresh" /\ req[p].tok.type = "refresh"
                /\ ~Falsy(req[p].tok.email))
            => req[p].status = 200

\* C6: refresh called with a correctly signed, unexpired access-kind token is
\* answered 401 and mints no pair: with "no es un refresh token" once the
\* token's iat has come, with "Refresh token invalido" before.
C6_RefreshRejectsAccess ==
    \A p \in Procs :
        (req[p].op = "refresh" /\ WellSigned(req[p].tok)
            /\ req[p].tok.type = "access" /\ req[p].at < req[p].tok.exp)
        => /\ req[p].pc = "done"
           /\ req[p].status = 401
           /\ req[p].detail = IF req[p].at < req[p].tok.iat
                              THEN DetailRefreshInvalid
                              ELSE DetailRefreshNotRefresh
           /\ req[p].access = NoToken
           /\ req[p].refresh = NoToken
           /\ NoPair(p)

\* refresh turned away an issued, unexpired access token of a known subject
C6_Witness ==
    \E p \in Procs :
        /\ req[p].op = "refresh"
        /\ req[p].tok = Signed("u1", "a@x.com", "access")
        /\ req[p].tok.iat <= req[p].at
        /\ req[p].at < req[p].tok.exp
        /\ req[p].status = 401
        /\ req[p].detail = DetailRefreshNotRefresh
        /\ NoPair(p)

\* C7 as claimed: a refresh that presents a correctly signed, unexpired
\* refresh token with a sub and an email succeeds, and the pair it returns
\* carries the sub and the email of the token presented.
C7_Claimed ==
    \A p \in Procs :
        (Done(p, "refresh") /\ ValidAt(req[p].tok, req[p].at)
            /\ req[p].tok.type = "refresh" /\ ~Falsy(req[p].tok.email)) =>
            /\ req[p].status = 200
            /\ req[p].access.sub = req[p].tok.sub
            /\ req[p].access.email = req[p].tok.email
            /\ req[p].refresh.sub = req[p].tok.sub
            /\ req[p].refresh.email = req[p].tok.email

\* C8 as claimed: a refresh whose profile read reported no row for the subject
\* of a valid refresh token fails with NotFound, mints nothing and leaves no
\* row behind.
C8_Claimed ==
    \A p \in Procs :
        (Done(p, "refresh") /\ req[p].inserts > 0) =>
            /\ req[p].detail = DetailRefreshNoUser
            /\ req[p].access = NoToken
            /\ NoPair(p)

\* C9: the reconciler hands back a profile whose id is the identity id whatever
\* the store answered, and a flow whose identity has been verified always
\* reaches the token issuer: no answer of such a flow comes from a failure of
\* the profile store.
C9_Claimed ==
    \A p \in Procs : req[p].op \in Flows =>
        /\ req[p].how # "none" => req[p].profile.id = req[p].uid
        /\ (~Falsy(req[p].uid) /\ req[p].pc = "done") =>
            /\ req[p].how # "none"
            /\ req[p].access # NoToken
            /\ req[p].msg = MsgSettings

\* ------------------------------------------------------------------
\* Properties of the flows' answers
\* ------------------------------------------------------------------
\* C11 as claimed: a login with correct credentials that is not answered from
\* a stored row (the read found none, or failed) is answered 200 with an
\* access_token in the body, and the name and phone of the answer are those
\* supplied at registration or null, the avatar null.
C11_Claimed ==
    \A p \in Procs :
        (Done(p, "login") /\ req[p].provider = "user" /\ req[p].how # "stored") =>
            /\ req[p].status = 200
            /\ "access_token" \in DOMAIN req[p].resp
            /\ req[p].resp.user.id = req[p].uid
            /\ req[p].resp.user.full_name \in {meta[req[p].uid].full_name, NoneVal}
            /\ req[p].resp.user.phone \in {meta[req[p].uid].phone, NoneVal}
            /\ req[p].resp.user.avatar_url = NoneVal

\* C12 as claimed: of two registrations with the same email the provider
\* accepts at most one; the accepted one, once answered, is answered 201 with
\* a pair, and the one the provider reported the collision to is answered 400
\* AlreadyRegistered without a pair (not 500); never both 201.
C12_Claimed ==
    \A p \in Procs, q \in Procs :
        (p # q /\ req[p].op = "register" /\ req[q].op = "register"
            /\ req[p].email = req[q].email) =>
            /\ ~(req[p].provider = "user" /\ req[q].provider = "user")
            /\ ~(req[p].status = 201 /\ req[q].status = 201)
            /\ (req[p].provider = "user" /\ req[p].pc = "done") =>
                /\ req[p].status = 201
                /\ "access_token" \in DOMAIN req[p].resp
            /\ req[q].msg = MsgAlreadyRegistered =>
                /\ req[q].pc = "done"
                /\ req[q].status = 400
                /\ req[q].detail = DetailAlreadyRegistered
                /\ NoPair(q)

\* A register whose profile row could not be stored: every insert failed.
StorageFailed(p) == req[p].how = "synth"

\* C13: register answers 400 when the provider reports a collision, rejects
\* the address format, mandates a confirmation or hands back no user (the
\* address was not taken as valid and free), 500 with the provider's message
\* for every other exception of the provider, and 500 when the row could not
\* be stored; no answer other than 201 carries a token.
C13_RegisterFailures ==
    \A p \in Procs : Done(p, "register") =>
        /\ req[p].msg = MsgAlreadyRegistered
            => (req[p].status = 400 /\ req[p].detail = DetailAlreadyRegistered)
        /\ req[p].msg = MsgInvalidEmail
            => (req[p].status = 400 /\ req[p].detail = DetailInvalidEmail)
        /\ req[p].msg = MsgConfirmation
            => (req[p].status = 400 /\ req[p].detail = DetailConfirmation)
        /\ req[p].provider = "no_user"
            => (req[p].status = 400 /\ req[p].detail = DetailRegisterNoUser)
        /\ (req[p].provider = "exception" /\ req[p].msg = MsgOther)
            => (req[p].status = 500 /\ req[p].detail = DetailRegisterError(MsgOther))
        /\ StorageFailed(p) => req[p].status = 500
        /\ req[p].status # 201 =>
            /\ NoPair(p)
            /\ req[p].refresh = NoToken

\* one register was answered 500 with the message of the provider's failure,
\* another 400 because the provider rejected the format of the address, and
\* neither answer carries a token
C13_Witness ==
    \E p \in Procs, q \in Procs :
        /\ Done(p, "register")
        /\ req[p].provider = "exception"
        /\ req[p].msg = MsgOther
        /\ req[p].status = 500
        /\ req[p].detail = DetailRegisterError(MsgOther)
        /\ NoPair(p)
        /\ Done(q, "register")
        /\ req[q].msg = MsgInvalidEmail
        /\ req[q].status = 400
        /\ NoPair(q)

\* The provider's rejections of a login attempt, by their messages.
LoginRejections == {MsgInvalidCredentials, MsgEmailNotConfirmed}

\* C14 as claimed: every login the provider rejects is answered 401 with the
\* one InvalidCredentials detail, whatever the reason, never 500.
C14_Claimed ==
    \A p \in Procs :
        (Done(p, "login")
            /\ (req[p].provider = "no_user"
                \/ (req[p].provider = "exception" /\ req[p].msg \in LoginRejections)))
        => (req[p].status = 401 /\ req[p].detail = DetailInvalidCredentials)

\* C15 as claimed: GET /auth/me for a subject without a row in the users table
\* is answered 404, whether the store reports the absence as an empty result
\* or as a no-rows error.
C15_Claimed ==
    \A p \in Procs :
        (Done(p, "me") /\ req[p].store \in {"empty", "no_rows"}) => req[p].status = 404

\* C16 as claimed: a register, login, refresh or Google login whose identity
\* was verified is answered with a body that carries an access_token of kind
\* access and a refresh_token of kind refresh for the same subject, token_type
\* bearer and expires_in equal to the access TTL in seconds.
C16_Claimed ==
    \A p \in Procs : Minted(p) =>
        /\ "access_token" \in DOMAIN req[p].resp
        /\ req[p].resp.access_token.type = "access"
        /\ req[p].resp.token_type = "bearer"
        /\ req[p].resp.expires_in = AccessTtl
        /\ "refresh_token" \in DOMAIN req[p].resp
        /\ req[p].resp.refresh_token.type = "refresh"
        /\ req[p].resp.refresh_token.sub = req[p].resp.access_token.sub

\* A login with correct credentials answered after a registration of the same
\* email was accepted by the provider and answered.
LoginAfterRegister(p, q) ==
    /\ Done(p, "register")
    /\ req[p].provider = "user"
    /\ Done(q, "login")
    /\ req[q].provider = "user"
    /\ req[q].email = req[p].email

\* C17 as claimed: a login that follows a register with the same credentials
\* returns an access_token that differs from the access_token the register
\* returned and carries the same sub.
C17_Claimed ==
    \A p \in Procs, q \in Procs : LoginAfterRegister(p, q) =>
        /\ "access_token" \in DOMAIN req[p].resp
        /\ "access_token" \in DOMAIN req[q].resp
        /\ req[q].resp.access_token # req[p].resp.access_token
        /\ req[q].resp.access_token.sub = req[p].resp.access_token.sub

ProfileFields == {"full_name", "phone", "avatar_url"}

\* C18: a PUT /auth/me that passed the gate with no field supplied is answered
\* 400 and leaves the users table as it was; with a field supplied only the
\* supplied fields of the one row whose id is the token's sub change, and an
\* answer other than 200, like the gate's own step, changes nothing.
C18_UpdateFrame ==
    [][\A p \in Procs :
        (req'[p] # req[p] /\ req'[p].op = "update_profile") =>
            LET r == req'[p]
                supplied == DOMAIN update_data(r.body) IN
            /\ r.pc = "body" => users' = users
            /\ (r.pc = "done" /\ r.user_id # NoneVal /\ supplied = {})
                => (r.status = 400 /\ users' = users)
            /\ r.status # 200 => users' = users
            /\ r.status = 200 =>
                /\ r.user_id = r.tok.sub
                /\ supplied # {}
                /\ Cardinality(RowsOf(users, r.user_id)) = 1
            /\ Len(users') = Len(users)
            /\ \A i \in DOMAIN users :
                /\ users[i].id # r.tok.sub => users'[i] = users[i]
                /\ users'[i].id = users[i].id
                /\ users'[i].email = users[i].email
                /\ users'[i].created_at = users[i].created_at
                /\ \A f \in ProfileFields :
                    users'[i][f] # users[i][f]
                        => (f \in supplied /\ users'[i][f] = r.body[f])]_vars

\* only the phone was supplied: the row of the subject has the new phone and
\* its old name, the row of the other account is as registered
C18_Witness ==
    \E p \in Procs :
        /\ Done(p, "update_profile")
        /\ req[p].status = 200
        /\ req[p].body.phone = "777"
        /\ req[p].body.full_name = NoneVal
        /\ \E i \in DOMAIN users, j \in DOMAIN users :
            /\ users[i].id = req[p].user_id
            /\ users[i].phone = "777"
            /\ users[i].full_name = "Ana"
            /\ users[j].id # req[p].user_id
            /\ users[j].phone = "555"

\* C19 as claimed: get_optional_user_id never fails: it returns the sub of a
\* correctly signed, unexpired access token that has one, and None for absent
\* credentials and for every other credential.
C19_Claimed ==
    \A p \in Procs : Done(p, "optional") =>
        /\ req[p].status = 200
        /\ IF ValidAt(req[p].tok, req[p].at) /\ req[p].tok.type = "access"
           THEN req[p].user_id = req[p].tok.sub
           ELSE req[p].user_id = NoneVal

\* C20 as claimed: a reconcile call whose insert the store turns down because
\* the row exists goes back to reading the profile, or returns the stored row;
\* it does not go on to insert again.
C20_Claimed ==
    [][\A p \in Procs :
        (req[p].pc = "insert" /\ req'[p] # req[p] /\ HasRow(users, req[p].uid)) =>
            \/ req'[p].pc = "read"
            \/ /\ req'[p].how = "stored"
               /\ req'[p].profile = TheRow(users, req[p].uid)]_vars

\* ------------------------------------------------------------------
\* Properties of the identity reconciler
\* ------------------------------------------------------------------
\* Handler p took a step.
Stepped(p) == req'[p] # req[p]

\* C21 as claimed: register reads the profile before it attempts an insert.
C21_Claimed ==
    \A p \in Procs : (req[p].op = "register" /\ req[p].inserts > 0) => req[p].reads > 0

\* C23: a read that succeeds while the row exists returns the stored row at
\* once: not the hints, no wait, no insert, no change of the users table.
C23_FoundReturnsStored ==
    [][\A p \in Procs :
        (req[p].pc = "read" /\ Stepped(p) /\ HasRow(users, req[p].uid)
            /\ faults' = faults) =>
            /\ req'[p].how = "stored"
            /\ req'[p].pc \in {"issue", "update"}
            /\ req'[p].profile = TheRow(users, req[p].uid)
            /\ req'[p].profile.id = req[p].uid
            /\ req'[p].waits = req[p].waits
            /\ req'[p].inserts = 0
            /\ req'[p].reads = req[p].reads + 1
            /\ users' = users]_vars

\* a Google login whose hints differ from the stored row got the stored row on
\* its first read
C23_Witness ==
    \E p \in Procs :
        /\ req[p].op = "google"
        /\ req[p].how = "stored"
        /\ req[p].pc = "update"
        /\ req[p].reads = 1
        /\ req[p].waits = <<>>
        /\ req[p].full_name = "Ana G"
        /\ req[p].profile.full_name # "Ana G"
        /\ req[p].profile = TheRow(users, req[p].uid)

ReadWaits == <<200, 400>>
InsertWaits == <<300, 600, 1200, 2400>>

\* C25: the waits of a reconcile call are 200, 400 ms between its reads and
\* 300, 600, 1200, 2400 ms between its inserts, one wait before every retry,
\* and a read that succeeds after a wait returns the stored row.
C25_Backoff ==
    \A p \in Procs :
        /\ req[p].attempt <= Len(ReadWaits)
        /\ req[p].iattempt <= Len(InsertWaits)
        /\ req[p].waits = SubSeq(ReadWaits, 1, req[p].attempt)
                            \o SubSeq(InsertWaits, 1, req[p].iattempt)
        /\ req[p].reads <= req[p].attempt + 1
        /\ req[p].inserts <= req[p].iattempt + 1
        /\ req[p].pc = "rsleep" => req[p].reads = req[p].attempt + 1
        /\ req[p].pc = "isleep" => req[p].inserts = req[p].iattempt + 1
        /\ (req[p].how = "stored" /\ req[p].attempt > 0) =>
            /\ req[p].profile.id = req[p].uid
            /\ req[p].inserts = 0

\* one call waited 300, 600, 1200 and 2400 ms between its inserts, another got
\* the stored row on its third read after waiting 200 and 400 ms
C25_Witness ==
    \E p \in Procs, q \in Procs :
        /\ req[p].waits = InsertWaits
        /\ req[p].inserts = 5
        /\ req[q].waits = ReadWaits
        /\ req[q].reads = 3
        /\ req[q].how = "stored"

\* C26: the step that gives up returns the profile made of the identity id,
\* the email, the hints and the current time, and writes nothing; no failed
\* insert of the call wrote a row either.
C26_SynthesizedNotPersisted ==
    [][\A p \in Procs :
        /\ (Stepped(p) /\ req'[p].how = "synth" /\ req[p].how # "synth") =>
            /\ users' = users
            /\ req'[p].profile =
                    [id |-> req[p].uid, email |-> req[p].email,
                     full_name |-> req[p].full_name, phone |-> req[p].phone,
                     avatar_url |-> req[p].avatar_url, created_at |-> now]
            /\ \/ req'[p].reads = get_max_retries /\ req'[p].inserts = 0
               \/ req'[p].inserts = create_max_retries
        /\ (req[p].pc = "insert" /\ req'[p].pc = "isleep") => users' = users]_vars

\* every read of a Google login failed: the answer carries the provider's name
\* and avatar and the users table holds no row for the identity
C26_Witness ==
    \E p \in Procs :
        /\ req[p].op = "google"
        /\ req[p].how = "synth"
        /\ req[p].reads = get_max_retries
        /\ req[p].inserts = 0
        /\ req[p].profile.avatar_url = "pic1"
        /\ req[p].profile.email = req[p].email
        /\ ~HasRow(users, req[p].uid)

\* A reconcile call is in progress in handler p.
InReconcile(p) == req[p].pc \in {"read", "rsleep", "insert", "isleep"}

\* C22 as claimed, at the point where a finite run decides it: a login is
\* sent by an identity that registered or logged in with Google before, so
\* when a login that the provider accepted has been answered, on a store
\* that accepted every read and write so far, the row of the identity
\* exists: an earlier flow or the reconciler of this login has persisted it.
C22_Claimed ==
    \A p \in Procs :
        (Done(p, "login") /\ req[p].provider = "user" /\ req[p].how # "none"
            /\ faults = 0)
        => HasRow(users, req[p].uid)

\* The waits a call has made when it is not asleep and about to retry.
WaitsMade(r) ==
    (IF r.reads > 0 THEN r.reads - 1 ELSE 0) + (IF r.inserts > 0 THEN r.inserts - 1 ELSE 0)

\* C27: a reconcile call makes at most 3 reads and 5 inserts, has waited only
\* between attempts when it returns (never after the last one), and ends
\* whatever the store answers.
C27_BoundedReconcile ==
    /\ [](\A p \in Procs :
            /\ req[p].reads <= get_max_retries
            /\ req[p].inserts <= create_max_retries
            /\ req[p].how # "none" => Len(req[p].waits) = WaitsMade(req[p]))
    /\ \A p \in Procs : InReconcile(p) ~> ~InReconcile(p)

\* a call that read once and then had all of its five inserts turned down
\* returned after four waits
C27_Witness ==
    \E p \in Procs :
        /\ req[p].how = "synth"
        /\ req[p].reads = 1
        /\ req[p].inserts = create_max_retries
        /\ Len(req[p].waits) = 4
        /\ ~InReconcile(p)

\* The fields Google supplies for a profile.
GoogleFields == {"full_name", "avatar_url"}

\* C28 as claimed: after a Google login of an identity that has a stored
\* profile, every name or avatar the provider supplied is the stored one and
\* the one of the profile the handler answers with, so that a difference in
\* either was written to the store.
C28_Claimed ==
    \A p \in Procs :
        (Done(p, "google") /\ req[p].provider = "user" /\ HasRow(users, req[p].uid)) =>
            \A f \in GoogleFields :
                ~Falsy(req[p][f]) =>
                    /\ TheRow(users, req[p].uid)[f] = req[p][f]
                    /\ req[p].profile[f] = req[p][f]

\* a Google login that found the profile stored, with no store failure, and
\* left a stored name that is not the one the provider supplied
C28_NameNotWritten ==
    \E p \in Procs :
        /\ Done(p, "google")
        /\ req[p].provider = "user"
        /\ req[p].how = "stored"
        /\ faults = MaxFaults - 1
        /\ HasRow(users, req[p].uid)
        /\ ~Falsy(req[p].full_name)
        /\ TheRow(users, req[p].uid).full_name # req[p].full_name

\* C29: no step of register, login, refresh, Google login, logout, verify or a
\* profile endpoint (GET and PUT /auth/me, PUT /profile/name, POST and DELETE
\* /profile/avatar) removes a row of the users table or changes the id of
\* one: the rows only grow in number and each keeps its place and its id.
C29_NeverDeleted ==
    [][\A i \in DOMAIN users :
            /\ i \in DOMAIN users'
            /\ users'[i].id = users[i].id]_vars

\* an upload replaced the avatar of a stored profile: the row of its owner is
\* still stored, under the same id, with the new avatar
C29_Witness ==
    \E p \in Procs :
        /\ Done(p, "upload_avatar")
        /\ req[p].status = 200
        /\ HasRow(users, req[p].user_id)
        /\ Cardinality(RowsOf(users, req[p].user_id)) = 1
        /\ TheRow(users, req[p].user_id).avatar_url
                = get_public_url(file_path(req[p].user_id, ".png"))

\* The operations behind the auth gate, and the reasons verify_token gives.
GateOps == {"verify", "logout", "update_profile", "delete_avatar", "update_name",
            "upload_avatar"}
GateReasons == {DetailMalformed, DetailExpired, DetailKindAccess, DetailKindRefresh,
                DetailNoSubject}

\* What the order of the checks makes verify_token answer for a token, an
\* expected kind and a time.
ReasonFor(token, kind, t) ==
    IF ~WellSigned(token) \/ t < token.iat THEN DetailMalformed
    ELSE IF t >= token.exp THEN DetailExpired
    ELSE IF token.type # kind THEN DetailKind(kind)
    ELSE IF Falsy(token.sub) THEN DetailNoSubject
    ELSE DetailOk

\* C30: verify_token rejects with status 401 and a reason that depends on the
\* first failing check in the order decode (structure, signature, iat not in
\* the future), expiry, kind, subject; the reasons are pairwise distinct.
\* Holds for every token that can be presented, for both expected kinds, and
\* for every answered call of an operation behind the gate.
C30_ReasonOrder ==
    /\ Cardinality(GateReasons) = 5
    /\ \A token \in OpsTokens, kind \in {"access", "refresh"} :
        LET v == verify_token(token, kind, now) IN
        /\ v.detail = ReasonFor(token, kind, now)
        /\ v.status = IF v.detail = DetailOk THEN 200 ELSE 401
    /\ \A p \in Procs :
        (req[p].pc = "done" /\ req[p].op \in GateOps
            /\ ReasonFor(req[p].tok, "access", req[p].at) # DetailOk) =>
                /\ req[p].status = 401
                /\ req[p].detail = ReasonFor(req[p].tok, "access", req[p].at)

\* a call behind the gate presented an unexpired refresh-kind token without a
\* subject and was told the kind is wrong, and the same token, expired, is
\* reported as expired
C30_Witness ==
    \E p \in Procs :
        /\ req[p].pc = "done"
        /\ req[p].op \in GateOps
        /\ req[p].tok = Signed(NoneVal, "a@x.com", "refresh")
        /\ req[p].at < req[p].tok.exp
        /\ req[p].detail = DetailKindAccess
        /\ now >= req[p].tok.exp
        /\ verify_token(req[p].tok, "access", now).detail = DetailExpired
        /\ verify_token(Misdated, "access", now).detail = DetailMalformed
        /\ verify_token(PostdatedRefresh, "access", now).detail = DetailKindAccess
        /\ verify_token(PostdatedRefresh, "access", req[p].at).detail = DetailMalformed

=============================================================================
